---- MODULE Spec2Model ----
(***************************************************************************)
(* Model of the site scanner's probing core:                               *)
(*   - scanSite (client/src/scanner/orchestrator.ts) with the redirect     *)
(*     resolver and the five post-redirect probes;                         *)
(*   - pLimit, the bulk runner (client/src/views/ExplorerView.tsx), with   *)
(*     the per-domain task of rescanSelected.                              *)
(* JavaScript runs every handler to completion: one action is one          *)
(* macrotask (the code from one resumed await to the next suspension).     *)
(***************************************************************************)
EXTENDS Integers, Sequences, FiniteSets, TLC

\* ------------------------------------------------------------------------
\* Bounds of the explored environment
\* ------------------------------------------------------------------------
NumPaths == 1
MaxServedRedirects == 1
MaxDomains == 4
MaxChainPaths == 11
MaxChildren == 3
MaxSignals == 3
MaxLines == 3

\* ------------------------------------------------------------------------
\* Program constants
\* ------------------------------------------------------------------------
MAX_REDIRECTS == 10
BULK_CONCURRENCY == 3

\* ------------------------------------------------------------------------
\* Nullable values: null is the empty tuple, a value v is <<v>>
\* ------------------------------------------------------------------------
Null == <<>>
Some(v) == <<v>>
IsNull(x) == x = <<>>
Val(x) == x[1]

\* A call either returns a value or throws
Return(v) == [threw |-> FALSE, value |-> <<v>>]
Throw == [threw |-> TRUE, value |-> <<>>]

\* ------------------------------------------------------------------------
\* URLs.  A URL is a host and a path; BadUrl is an input string that
\* new URL() cannot parse.
\* ------------------------------------------------------------------------
Hosts == {"a.gov", "b.gov"}
URLS == [host : Hosts, path : 1..NumPaths]
BadUrl == [host |-> "", path |-> 0]
Inputs == URLS \cup {BadUrl}
Parseable(u) == u.host # ""

\* Values of a response's Location header: absent, unparseable, an absolute
\* URL, or a path relative to the requesting URL.
NoLocation == [kind |-> "none", host |-> "", path |-> 0]
BadLocation == [kind |-> "bad", host |-> "", path |-> 0]
Locations ==
  {NoLocation, BadLocation}
    \cup {[kind |-> "abs", host |-> u.host, path |-> u.path] : u \in URLS}
    \cup {[kind |-> "rel", host |-> "", path |-> p] : p \in 1..NumPaths}

\* HTTP status codes the servers answer with
Statuses == {200, 301, 401}

\* new URL(location, currentUrl).href; Null when the constructor throws
ResolveLocation(location, base) ==
  IF ~Parseable(base) \/ location.kind = "bad" THEN Null
  ELSE IF location.kind = "abs"
       THEN Some([host |-> location.host, path |-> location.path])
       ELSE Some([host |-> base.host, path |-> location.path])

IsRedirect(st) == st >= 300 /\ st < 400

Probes == {"sitemap", "robots", "tech", "dns", "wellknown"}

VARIABLES
  \* ---- scanSite ----
  pc,              \* position of scanSite: idle, redirect, probes, done, rejected
  url,             \* the argument of scanSite
  method,          \* request of checkRedirectChain in flight: HEAD, GET, none
  currentUrl,      \* checkRedirectChain: currentUrl
  visited,         \* checkRedirectChain: visited
  hops,            \* checkRedirectChain: hops
  redirect_chain,  \* result.redirect_chain
  probe,           \* state of each of the five async functions
  probeTarget,     \* URL each probe was called with
  sitemap,         \* result.sitemap
  robots,          \* result.robots
  tech_stack,      \* result.tech_stack
  dns,             \* result.dns
  wellKnownProvider,
  errors,          \* result.errors
  live,            \* result.live
  status,          \* result.status
  onProgress,      \* the calls the onProgress callback got, Null without a callback
  wire,            \* the responses checkRedirectChain got, Null when not observed
  \* ---- bulk re-scan (rescanSelected / pLimit) ----
  bpc,             \* position of rescanSelected: idle, importing, running, returned
  domains,         \* the selected domains, the items of pLimit
  queue,           \* pLimit: queue
  workers,         \* pLimit: the worker async functions and their current task
  bulkAborted,     \* bulkAbortedRef.current
  bulkScan,        \* the bulkScan React state
  dispatched,      \* domains whose task was called, in call order
  posted           \* domains api.postScan was called for

scanVars == <<pc, url, method, currentUrl, visited, hops, redirect_chain, probe,
              probeTarget, sitemap, robots, tech_stack, dns, wellKnownProvider,
              errors, live, status, onProgress, wire>>

bulkVars == <<bpc, domains, queue, workers, bulkAborted, bulkScan, dispatched, posted>>

VARIABLES
  \* ---- fetchWithTimeout ----
  fpc,             \* position of fetchWithTimeout: idle, direct, proxy, returned, threw
  fetchUrl,        \* the argument url
  fetchMethod,     \* options.method, Null when absent
  timer,           \* the setTimeout timer: none, armed, cleared, fired
  fetchErr,        \* the error the direct fetch rejected with
  directRequests,  \* requests fetch(url, ...) sent to the target
  proxyRequests,   \* bodies posted to PROXY_URL
  fetchResult      \* what fetchWithTimeout returned or threw

fetchVars == <<fpc, fetchUrl, fetchMethod, timer, fetchErr, directRequests,
               proxyRequests, fetchResult>>

VARIABLES
  \* ---- the proxy route of the server ----
  ppc,             \* position of the request: idle, lookup, fetching, answered
  reqBody,         \* req.body: url and method
  addresses,       \* what dns.lookup gave for the hostname
  proxyStatus,     \* status of the answer, 0 before it
  outbound         \* requests node-fetch sent

proxyVars == <<ppc, reqBody, addresses, proxyStatus, outbound>>

VARIABLES
  \* ---- computeDiff ----
  before,          \* the argument before
  after,           \* the argument after
  diff             \* the DiffResult returned, Null before the call

diffVars == <<before, after, diff>>

VARIABLES
  \* ---- analyzeSitemapIndex ----
  ipc,             \* position of analyzeSitemapIndex: idle, fetching, returned
  indexDoc,        \* the <sitemap> elements of the index document
  pending,         \* child fetches in flight, counted per <sitemap> element
  childRequests,   \* number of child sitemaps requested
  fetchedOk,       \* child documents that were fetched and parsed
  totalPages,      \* totalPages
  pdfCount,        \* pdfCount
  indexResult      \* the SitemapResult returned, Null before

indexVars == <<ipc, indexDoc, pending, childRequests, fetchedOk, totalPages,
               pdfCount, indexResult>>

VARIABLES
  \* ---- analyzeSitemap ----
  spc,             \* position of analyzeSitemap: idle, fetching, reading, returned, threw
  smBaseUrl,       \* the argument baseUrl
  smStatus,        \* response.status, 0 before a response
  smDoc,           \* the document parsed from the body, Null before
  smResult         \* the SitemapResult returned, Null before

sitemapVars == <<spc, smBaseUrl, smStatus, smDoc, smResult>>

VARIABLES
  \* ---- detectCms ----
  cmsSignals,      \* what the html and the headers of the page have
  cmsCalled,       \* detectCms has returned
  cmsResult        \* the value detectCms returned, Null for null

cmsVars == <<cmsSignals, cmsCalled, cmsResult>>

VARIABLES
  \* ---- fetchRobotsTxt ----
  robotsLines,     \* the lines of the robots.txt body
  robotsReturned,  \* fetchRobotsTxt has returned
  robotsResult     \* crawl_delay and sitemap_locations of the result

robotsVars == <<robotsLines, robotsReturned, robotsResult>>

VARIABLES
  \* ---- checkHostingProvider ----
  wpc,             \* position of checkHostingProvider: idle, fetching, reading, returned
  wkBaseUrl,       \* the argument baseUrl
  wkStatus,        \* res.status, 0 before a response
  wkBody,          \* the body res.text() gave, Null before
  wkResult         \* the value returned, Null for null

wellKnownVars == <<wpc, wkBaseUrl, wkStatus, wkBody, wkResult>>

VARIABLES
  \* ---- detectTech ----
  tpc,             \* position of detectTech: idle, probing, returned, threw
  techPage,        \* the signals the html and headers of the page have
  restCalls,       \* number of analyzeWpContent calls
  wpContent,       \* what the second promise of Promise.all resolved with, Null for null
  techResult       \* cms and wordpress of the TechStackResult returned, Null before

techVars == <<tpc, techPage, restCalls, wpContent, techResult>>

VARIABLES
  \* ---- handleRescan and POST /api/v1/scans ----
  rpc,             \* position of the re-scan panel: idle, ready, posting
  siteRow,         \* the row of the sites table, which is the site prop
  scanResult,      \* what scanSite observes of the site, the same at every re-scan
  rescanDiff,      \* the diff of the last re-scan, Null before the first
  persisted        \* a scan result has been applied to the row

rescanVars == <<rpc, siteRow, scanResult, rescanDiff, persisted>>

\* The units that are checked on their own
unitVars ==
  <<fetchVars, proxyVars, diffVars, indexVars, sitemapVars,
    cmsVars, robotsVars, wellKnownVars, techVars, rescanVars>>

vars == <<scanVars, bulkVars, unitVars>>

\* fetchWithTimeout has not been called
FetchIdle ==
  /\ fpc = "idle"
  /\ fetchUrl = BadUrl
  /\ fetchMethod = <<>>
  /\ timer = "none"
  /\ fetchErr = <<>>
  /\ directRequests = <<>>
  /\ proxyRequests = <<>>
  /\ fetchResult = <<>>

\* No request is with the proxy route
ProxyIdle ==
  /\ ppc = "idle"
  /\ reqBody = <<>>
  /\ addresses = {}
  /\ proxyStatus = 0
  /\ outbound = <<>>

\* computeDiff has not been called
DiffIdle ==
  /\ before = <<>>
  /\ after = <<>>
  /\ diff = <<>>

\* analyzeSitemapIndex has not been called
IndexIdle ==
  /\ ipc = "idle"
  /\ indexDoc = <<>>
  /\ pending = <<>>
  /\ childRequests = 0
  /\ fetchedOk = <<>>
  /\ totalPages = 0
  /\ pdfCount = 0
  /\ indexResult = <<>>

\* analyzeSitemap has not been called
SitemapIdle ==
  /\ spc = "idle"
  /\ smBaseUrl = <<>>
  /\ smStatus = 0
  /\ smDoc = <<>>
  /\ smResult = <<>>

\* detectCms has not been called
CmsIdle ==
  /\ cmsSignals = {}
  /\ cmsCalled = FALSE
  /\ cmsResult = <<>>

\* fetchRobotsTxt has not been called
RobotsIdle ==
  /\ robotsLines = <<>>
  /\ robotsReturned = FALSE
  /\ robotsResult = <<>>

\* checkHostingProvider has not been called
WellKnownIdle ==
  /\ wpc = "idle"
  /\ wkBaseUrl = BadUrl
  /\ wkStatus = 0
  /\ wkBody = <<>>
  /\ wkResult = <<>>

\* detectTech has not been called
TechIdle ==
  /\ tpc = "idle"
  /\ techPage = {}
  /\ restCalls = 0
  /\ wpContent = <<>>
  /\ techResult = <<>>

\* No site is open in the detail panel
RescanIdle ==
  /\ rpc = "idle"
  /\ siteRow = <<>>
  /\ scanResult = <<>>
  /\ rescanDiff = <<>>
  /\ persisted = FALSE

UnitsIdle ==
  /\ FetchIdle
  /\ ProxyIdle
  /\ DiffIdle
  /\ IndexIdle
  /\ SitemapIdle
  /\ CmsIdle
  /\ RobotsIdle
  /\ WellKnownIdle
  /\ TechIdle
  /\ RescanIdle

\* ------------------------------------------------------------------------
\* The probes, as functions of what the network answers
\* ------------------------------------------------------------------------

\* Response.ok
IsOk(st) == st >= 200 /\ st < 300

\* analyzeSitemap: what the fetch of /sitemap.xml does
\*   netfail  fetchWithTimeout throws
\*   non2xx   the response is not ok
\*   bodyfail response.text() rejects (outside every try block)
\*   badxml   the document has a parsererror
\*   parsed   the document is a sitemap or a sitemap index
SitemapOutcomes == {"netfail", "non2xx", "bodyfail", "badxml", "parsed"}

analyzeSitemap(o) ==
  IF o = "netfail"
    THEN Return([detected |-> FALSE, status_code |-> 0, error |-> Some("Network error")])
  ELSE IF o = "non2xx"
    THEN Return([detected |-> FALSE, status_code |-> 404, error |-> Null])
  ELSE IF o = "bodyfail"
    THEN Throw
  ELSE IF o = "badxml"
    THEN Return([detected |-> TRUE, status_code |-> 200, error |-> Some("Invalid XML")])
  ELSE Return([detected |-> TRUE, status_code |-> 200, error |-> Null])

\* fetchRobotsTxt: what the fetch of /robots.txt does
RobotsOutcomes == {"netfail", "non2xx", "bodyfail", "parsed"}

fetchRobotsTxt(o) ==
  IF o = "netfail"
    THEN Return([detected |-> FALSE, status_code |-> 0, error |-> Some("fetch failed")])
  ELSE IF o = "non2xx"
    THEN Return([detected |-> FALSE, status_code |-> 404, error |-> Null])
  ELSE IF o = "bodyfail"
    THEN Throw
  ELSE Return([detected |-> TRUE, status_code |-> 200, error |-> Null])

\* The landing page as the detectors see it
Htmls == [hasPasswordInput : BOOLEAN, titleIsLogin : BOOLEAN, wordpress : BOOLEAN]
EmptyHtml == [hasPasswordInput |-> FALSE, titleIsLogin |-> FALSE, wordpress |-> FALSE]
TechStatuses == {200, 401, 403, 500}

detectLoginGate(urlIsLoginPath, html, st) ==
  IF st = 401 THEN TRUE
  ELSE IF ~html.hasPasswordInput THEN FALSE
  ELSE urlIsLoginPath \/ html.titleIsLogin

\* detectTech: fetchFails = fetchWithTimeout throws; otherwise the response
\* has status st and body; restThrows = analyzeWpContent rejects (it is only
\* called when the CMS is WordPress).
detectTech(fetchFails, st, body, urlIsLoginPath, restThrows) ==
  IF fetchFails
    THEN Return([cms |-> Null, hosting_provider |-> Null, login_gate |-> FALSE])
  ELSE
    LET html == IF IsOk(st) \/ st = 403 THEN body ELSE EmptyHtml
        cms == IF html.wordpress THEN Some("WordPress") ELSE Null
    IN IF cms = Some("WordPress") /\ restThrows
         THEN Throw
         ELSE Return([cms |-> cms, hosting_provider |-> Null,
                      login_gate |-> detectLoginGate(urlIsLoginPath, html, st)])

\* What the network can do to detectTech: no response, or a response; a body
\* is read only from a 2xx or 403 response, and the REST probe only runs for
\* a WordPress page.
TechInputs ==
  {i \in [fetchFails : BOOLEAN, st : TechStatuses, body : Htmls,
          urlIsLoginPath : BOOLEAN, restThrows : BOOLEAN] :
     /\ i.fetchFails => (i.st = 200 /\ i.body = EmptyHtml /\ ~i.urlIsLoginPath)
     /\ ~(IsOk(i.st) \/ i.st = 403) => i.body = EmptyHtml
     /\ i.restThrows => (~i.fetchFails /\ i.body.wordpress)}

\* resolveDns never throws; inferred is what inferHostingProvider returns
\* for the records the four DoH queries produced (Null when they are empty
\* or match no rule).
DnsInferences == {Null, Some("inferred")}

resolveDns(inferred) == Return([hosting_provider |-> inferred])

\* checkHostingProvider: the whole body is inside one try block.
WellKnownLengths == {0, 1, 100, 101}

checkHostingProvider(baseUrl, fetchFails, ok, len, hasHtml) ==
  IF ~Parseable(baseUrl) \/ fetchFails THEN Null
  ELSE IF ~ok THEN Null
  ELSE IF len = 0 \/ len > 100 \/ hasHtml THEN Null
  ELSE Some("declared")

\* What the network can do to checkHostingProvider
WellKnownInputs ==
  {i \in [fetchFails : BOOLEAN, ok : BOOLEAN, len : WellKnownLengths,
          hasHtml : BOOLEAN] :
     /\ i.fetchFails => (~i.ok /\ i.len = 0 /\ ~i.hasHtml)
     /\ i.len = 0 => ~i.hasHtml}

\* ------------------------------------------------------------------------
\* scanSite: the code after the probes have settled
\* ------------------------------------------------------------------------

\* Variant of FinalUrl: the probes are pointed at the URL scanSite was given
FinalUrl_Original(chain, u) == u


\* const finalUrl = result.redirect_chain?.final_url ?? url
FinalUrl(chain, u) == IF IsNull(chain) THEN u ELSE Val(chain).final_url

\* Priority merge for hosting_provider
MergeHostingProvider(ts, wk, d) ==
  IF IsNull(ts) THEN ts
  ELSE IF ~IsNull(wk)
    THEN Some([Val(ts) EXCEPT !.hosting_provider = wk])
  ELSE IF ~IsNull(d) /\ ~IsNull(Val(d).hosting_provider)
    THEN Some([Val(ts) EXCEPT !.hosting_provider = Val(d).hosting_provider])
  ELSE ts

\* Variant of ComputeLive: the login gate is not looked at
ComputeLive_NoGate(chain, ts, old) ==
  IF ~IsNull(chain) /\ Len(Val(chain).hops) > 0
    THEN LET hs == Val(chain).hops
             finalStatus == hs[Len(hs)].status_code
         IN Some(finalStatus >= 200 /\ finalStatus < 300)
    ELSE old


\* Variant of ComputeLive: a scan without a chain is reported as not live
ComputeLive_DeadWithoutChain(chain, ts, old) ==
  IF ~IsNull(chain) /\ Len(Val(chain).hops) > 0
    THEN LET hs == Val(chain).hops
             finalStatus == hs[Len(hs)].status_code
             is2xx == finalStatus >= 200 /\ finalStatus < 300
             loginGate == IF IsNull(ts) THEN FALSE ELSE Val(ts).login_gate
         IN Some(is2xx /\ ~loginGate)
    ELSE Some(FALSE)

\* Liveness; old is the value result.live has before
ComputeLive(chain, ts, old) ==
  IF ~IsNull(chain) /\ Len(Val(chain).hops) > 0
    THEN LET hs == Val(chain).hops
             finalStatus == hs[Len(hs)].status_code
             is2xx == finalStatus >= 200 /\ finalStatus < 300
             loginGate == IF IsNull(ts) THEN FALSE ELSE Val(ts).login_gate
         IN Some(is2xx /\ ~loginGate)
    ELSE old

\* Variant of ClassifyStatus: three errors still count as partial
ClassifyStatus_Upto3(n) ==
  IF n = 0 THEN "completed" ELSE IF n <= 3 THEN "partial" ELSE "failed"


ClassifyStatus(n) ==
  IF n = 0 THEN "completed" ELSE IF n < 3 THEN "partial" ELSE "failed"

\* Variant of JoinReady: the best-effort well-known probe is not awaited
JoinReady_SkipWellKnown(pr) == \A p \in Probes \ {"wellknown"} : pr[p] = "settled"


\* Promise.allSettled: the join waits for every one of the promises
JoinReady(pr) == \A p \in Probes : pr[p] = "settled"

\* ------------------------------------------------------------------------
\* checkRedirectChain
\* ------------------------------------------------------------------------

\* Number of 3xx answers among the recorded hops
ServedRedirects(hs) ==
  Cardinality({k \in 1..Len(hs) : IsRedirect(hs[k].status_code)})

\* The URL the loop goes on with after a response, Null for a break
NextHop(st, location, cur) ==
  IF IsRedirect(st) /\ location.kind # "none"
    THEN ResolveLocation(location, cur)
    ELSE Null

\* An observer of the network notes the response: the method it answers,
\* its status and Location
Observe(w, m, st, location) ==
  IF IsNull(w) THEN w
  ELSE Some(Append(Val(w), [method |-> m, status |-> st, location |-> location]))

\* Variant of LoopContinues: the visited set is not consulted
LoopContinues_NoVisited(next, hs, vis) ==
  /\ ~IsNull(next)
  /\ Len(hs) < MAX_REDIRECTS

\* After a hop was pushed (the hops are now hs): the for loop runs another
\* iteration up to its request when the response gave a next URL, i + 1 is
\* below MAX_REDIRECTS and the next URL is not in visited
LoopContinues(next, hs, vis) ==
  /\ ~IsNull(next)
  /\ Len(hs) < MAX_REDIRECTS
  /\ Val(next) \notin vis

\* Variant of RedirectChainResult: final_url is the URL the chain started at
RedirectChainResult_Original(u, hs) ==
  [original_url |-> u,
   final_url |-> u,
   was_redirected |-> Len(hs) > 1 \/ (Len(hs) = 1 /\ hs[1].url # u),
   hops |-> hs,
   total_hops |-> Len(hs)]

\* The value checkRedirectChain returns for the hops hs
RedirectChainResult(u, hs) ==
  [original_url |-> u,
   final_url |-> IF Len(hs) > 0 THEN hs[Len(hs)].url ELSE u,
   was_redirected |-> Len(hs) > 1 \/ (Len(hs) = 1 /\ hs[1].url # u),
   hops |-> hs,
   total_hops |-> Len(hs)]

\* ------------------------------------------------------------------------
\* scanSite
\* ------------------------------------------------------------------------

\* Variant of CatchRedirect: no catch block, the failure leaves scanSite
CatchRedirect_Rethrow(errs) == [rejects |-> TRUE, errors |-> errs]

\* Variant of CatchRedirect: the failure is caught but not recorded
CatchRedirect_Swallow(errs) == [rejects |-> FALSE, errors |-> errs]


\* The catch block around checkRedirectChain
CatchRedirect(errs) == [rejects |-> FALSE, errors |-> Append(errs, "redirect")]

\* Variant of RecordOutcome: an empty catch block
RecordOutcome_Swallow(label, r, errs) == errs


\* The try/catch of one probe's async function: r is what the probe did
RecordOutcome(label, r, errs) == IF r.threw THEN Append(errs, label) ELSE errs

\* onProgress?.(step, done): the call is skipped without a callback
OnProgress(cb, step, done) ==
  IF IsNull(cb) THEN cb ELSE Some(Append(Val(cb), [step |-> step, done |-> done]))

\* Variant of ProgressDone: the done call sits inside the try block
ProgressDone_InTry(cb, step, r) ==
  IF r.threw THEN cb ELSE OnProgress(cb, step, TRUE)

\* onProgress?.(step, true) after the try/catch of a phase; r is what the
\* awaited call did
ProgressDone(cb, step, r) == OnProgress(cb, step, TRUE)

\* No bulk run: the state of the view before rescanSelected
BulkIdle ==
  /\ bpc = "idle"
  /\ queue = <<>>
  /\ workers = <<>>
  /\ bulkAborted = FALSE
  /\ bulkScan = [running |-> FALSE, total |-> 0, done |-> 0, failed |-> 0]
  /\ dispatched = <<>>
  /\ posted = {}

\* scanSite has not been called
ScanFresh ==
  /\ pc = "idle"
  /\ method = "none"
  /\ currentUrl = BadUrl
  /\ visited = {}
  /\ hops = <<>>
  /\ redirect_chain = Null
  /\ probe = [p \in Probes |-> "idle"]
  /\ probeTarget = [p \in Probes |-> Null]
  /\ sitemap = Null
  /\ robots = Null
  /\ tech_stack = Null
  /\ dns = Null
  /\ wellKnownProvider = Null
  /\ errors = <<>>
  /\ live = Null
  /\ status = "completed"

\* scanSite has not been called and will be called without a callback
ScanIdle ==
  /\ ScanFresh
  /\ onProgress = Null
  /\ wire = Null

InitScan ==
  /\ UnitsIdle
  /\ ScanIdle
  /\ url \in Inputs
  /\ BulkIdle
  /\ domains = <<>>

\* scanSite is called: it runs into checkRedirectChain up to the first HEAD
ScanStart ==
  /\ UNCHANGED <<bulkVars, unitVars>>
  /\ pc = "idle"
  /\ pc' = "redirect"
  /\ currentUrl' = url
  /\ visited' = {url}
  /\ hops' = <<>>
  /\ method' = "HEAD"
  /\ onProgress' = OnProgress(onProgress, "redirect", FALSE)
  /\ UNCHANGED wire
  /\ UNCHANGED <<url, redirect_chain, probe, probeTarget, sitemap, robots,
                 tech_stack, dns, wellKnownProvider, errors, live, status>>

\* The redirect step is over with result.redirect_chain = chain and the
\* errors errs: the five async functions are called one after the other, each
\* running up to its first await, and scanSite awaits Promise.allSettled.
StartProbes(chain, errs) ==
  LET finalUrl == FinalUrl(chain, url)
      dnsCall == IF Parseable(finalUrl) THEN Return(Null) ELSE Throw
      redirectCall == IF IsNull(chain) THEN Throw ELSE Return(chain)
      p1 == ProgressDone(onProgress, "redirect", redirectCall)
      p2 == OnProgress(p1, "sitemap", FALSE)
      p3 == OnProgress(p2, "robots", FALSE)
      p4 == OnProgress(p3, "tech", FALSE)
      p5 == OnProgress(p4, "dns", FALSE)
  IN /\ pc' = "probes"
     /\ onProgress' = (IF dnsCall.threw THEN ProgressDone(p5, "dns", dnsCall) ELSE p5)
     /\ method' = "none"
     /\ redirect_chain' = chain
     /\ probeTarget' = [p \in Probes |-> Some(finalUrl)]
     /\ probe' = [p \in Probes |->
                    IF p \in {"dns", "wellknown"} /\ ~Parseable(finalUrl)
                      THEN "settled" ELSE "running"]
     /\ errors' = RecordOutcome("dns", dnsCall, errs)
     /\ UNCHANGED <<url, sitemap, robots, tech_stack, dns, wellKnownProvider,
                    live, status>>

\* The request in flight (HEAD or GET) is answered with status st and a
\* Location header
RedirectResponds ==
  /\ UNCHANGED <<bulkVars, unitVars>>
  /\ pc = "redirect"
  /\ method \in {"HEAD", "GET"}
  /\ \E st \in Statuses, location \in Locations :
       /\ IsRedirect(st) => ServedRedirects(hops) < MaxServedRedirects
       /\ ~IsRedirect(st) => location = NoLocation
       /\ wire' = Observe(wire, method, st, location)
       /\ LET hops2 == Append(hops, [url |-> currentUrl, status_code |-> st])
              next == NextHop(st, location, currentUrl)
          IN IF LoopContinues(next, hops2, visited)
               THEN /\ hops' = hops2
                    /\ currentUrl' = Val(next)
                    /\ visited' = visited \cup {Val(next)}
                    /\ method' = "HEAD"
                    /\ UNCHANGED <<pc, url, redirect_chain, probe, probeTarget,
                                   sitemap, robots, tech_stack, dns,
                                   wellKnownProvider, errors, live, status,
                                   onProgress>>
               ELSE /\ hops' = hops2
                    /\ currentUrl' = IF IsNull(next) THEN currentUrl ELSE Val(next)
                    /\ UNCHANGED visited
                    /\ StartProbes(Some(RedirectChainResult(url, hops2)), errors)

\* HEAD fails: checkRedirectChain falls back to GET
HeadFails ==
  /\ UNCHANGED <<bulkVars, unitVars>>
  /\ pc = "redirect"
  /\ method = "HEAD"
  /\ method' = "GET"
  /\ UNCHANGED <<pc, url, currentUrl, visited, hops, redirect_chain, probe,
                 probeTarget, sitemap, robots, tech_stack, dns,
                 wellKnownProvider, errors, live, status, onProgress, wire>>

\* GET fails too: checkRedirectChain throws, scanSite catches
GetFails ==
  /\ UNCHANGED <<bulkVars, unitVars>>
  /\ pc = "redirect"
  /\ method = "GET"
  /\ LET c == CatchRedirect(errors)
     IN IF c.rejects
          THEN /\ pc' = "rejected"
               /\ method' = "none"
               /\ UNCHANGED <<url, currentUrl, visited, hops, redirect_chain,
                              probe, probeTarget, sitemap, robots, tech_stack,
                              dns, wellKnownProvider, errors, live, status,
                              onProgress, wire>>
          ELSE /\ StartProbes(Null, c.errors)
               /\ UNCHANGED <<currentUrl, visited, hops, wire>>

SitemapSettles ==
  /\ UNCHANGED <<bulkVars, unitVars>>
  /\ pc = "probes"
  /\ probe["sitemap"] = "running"
  /\ \E o \in SitemapOutcomes :
       LET r == analyzeSitemap(o)
       IN /\ sitemap' = (IF r.threw THEN sitemap ELSE r.value)
          /\ errors' = RecordOutcome("sitemap", r, errors)
          /\ onProgress' = ProgressDone(onProgress, "sitemap", r)
  /\ UNCHANGED wire
  /\ probe' = [probe EXCEPT !["sitemap"] = "settled"]
  /\ UNCHANGED <<pc, url, method, currentUrl, visited, hops, redirect_chain,
                 probeTarget, robots, tech_stack, dns, wellKnownProvider,
                 live, status>>

RobotsSettles ==
  /\ UNCHANGED <<bulkVars, unitVars>>
  /\ pc = "probes"
  /\ probe["robots"] = "running"
  /\ \E o \in RobotsOutcomes :
       LET r == fetchRobotsTxt(o)
       IN /\ robots' = (IF r.threw THEN robots ELSE r.value)
          /\ errors' = RecordOutcome("robots", r, errors)
          /\ onProgress' = ProgressDone(onProgress, "robots", r)
  /\ UNCHANGED wire
  /\ probe' = [probe EXCEPT !["robots"] = "settled"]
  /\ UNCHANGED <<pc, url, method, currentUrl, visited, hops, redirect_chain,
                 probeTarget, sitemap, tech_stack, dns, wellKnownProvider,
                 live, status>>

TechSettles ==
  /\ UNCHANGED <<bulkVars, unitVars>>
  /\ pc = "probes"
  /\ probe["tech"] = "running"
  /\ \E i \in TechInputs :
       LET r == detectTech(i.fetchFails, i.st, i.body, i.urlIsLoginPath, i.restThrows)
       IN /\ tech_stack' = (IF r.threw THEN tech_stack ELSE r.value)
          /\ errors' = RecordOutcome("tech", r, errors)
          /\ onProgress' = ProgressDone(onProgress, "tech", r)
  /\ UNCHANGED wire
  /\ probe' = [probe EXCEPT !["tech"] = "settled"]
  /\ UNCHANGED <<pc, url, method, currentUrl, visited, hops, redirect_chain,
                 probeTarget, sitemap, robots, dns, wellKnownProvider,
                 live, status>>

DnsSettles ==
  /\ UNCHANGED <<bulkVars, unitVars>>
  /\ pc = "probes"
  /\ probe["dns"] = "running"
  /\ \E inferred \in DnsInferences :
       LET r == resolveDns(inferred)
       IN /\ dns' = (IF r.threw THEN dns ELSE r.value)
          /\ errors' = RecordOutcome("dns", r, errors)
          /\ onProgress' = ProgressDone(onProgress, "dns", r)
  /\ UNCHANGED wire
  /\ probe' = [probe EXCEPT !["dns"] = "settled"]
  /\ UNCHANGED <<pc, url, method, currentUrl, visited, hops, redirect_chain,
                 probeTarget, sitemap, robots, tech_stack, wellKnownProvider,
                 live, status>>

WellKnownSettles ==
  /\ UNCHANGED <<bulkVars, unitVars>>
  /\ pc = "probes"
  /\ probe["wellknown"] = "running"
  /\ \E i \in WellKnownInputs :
       wellKnownProvider' =
         checkHostingProvider(Val(probeTarget["wellknown"]), i.fetchFails, i.ok,
                              i.len, i.hasHtml)
  /\ probe' = [probe EXCEPT !["wellknown"] = "settled"]
  /\ UNCHANGED <<pc, url, method, currentUrl, visited, hops, redirect_chain,
                 probeTarget, sitemap, robots, tech_stack, dns, errors,
                 live, status, onProgress, wire>>

\* Promise.allSettled resolves: merge, liveness, status, return
Finish ==
  /\ UNCHANGED <<bulkVars, unitVars>>
  /\ pc = "probes"
  /\ JoinReady(probe)
  /\ tech_stack' = MergeHostingProvider(tech_stack, wellKnownProvider, dns)
  /\ live' = ComputeLive(redirect_chain, tech_stack, live)
  /\ status' = ClassifyStatus(Len(errors))
  /\ pc' = "done"
  /\ UNCHANGED <<url, method, currentUrl, visited, hops, redirect_chain, probe,
                 probeTarget, sitemap, robots, dns, wellKnownProvider, errors,
                 onProgress, wire>>

NextScan ==
  \/ ScanStart
  \/ RedirectResponds
  \/ HeadFails
  \/ GetFails
  \/ SitemapSettles
  \/ RobotsSettles
  \/ TechSettles
  \/ DnsSettles
  \/ WellKnownSettles
  \/ Finish

SpecScan == InitScan /\ [][NextScan]_vars

\* scanSite called with a callback, as handleRescan does, for a URL and for
\* a string that is no URL
InitProgress ==
  /\ UnitsIdle
  /\ ScanFresh
  /\ onProgress = Some(<<>>)
  /\ wire = Null
  /\ url \in {[host |-> "a.gov", path |-> 1], BadUrl}
  /\ BulkIdle
  /\ domains = <<>>

SpecProgress == InitProgress /\ [][NextScan]_vars

\* ------------------------------------------------------------------------
\* checkRedirectChain on its own, against servers that redirect on and on
\* or back to a URL already requested
\* ------------------------------------------------------------------------
ChainUrls == [host : {"a.gov"}, path : 1..MaxChainPaths]

\* Statuses of the redirecting servers: those of Statuses and 405, the answer
\* of a server that does not allow the method
HeadUnsupported == {405}
ChainStatuses == Statuses \cup HeadUnsupported

MaxPath(vis) == CHOOSE p \in {u.path : u \in vis} : \A u \in vis : u.path <= p

\* Location headers of the redirecting servers: absent, unparseable, a URL
\* requested before, or the next URL not requested so far
ChainLocations(vis) ==
  {NoLocation, BadLocation}
    \cup {[kind |-> "rel", host |-> "", path |-> q] :
            q \in {r \in 1..MaxChainPaths : r <= MaxPath(vis) + 1}}

InitChain ==
  /\ UnitsIdle
  /\ ScanFresh
  /\ onProgress = Null
  /\ wire = Some(<<>>)
  /\ url \in {u \in ChainUrls : u.path <= 2}
  /\ BulkIdle
  /\ domains = <<>>

\* The request in flight is answered: the hop is pushed and the loop goes on
\* to the next request or checkRedirectChain returns
ChainResponds ==
  /\ UNCHANGED <<bulkVars, unitVars>>
  /\ pc = "redirect"
  /\ method \in {"HEAD", "GET"}
  /\ \E st \in ChainStatuses, location \in ChainLocations(visited) :
       /\ ~IsRedirect(st) => location = NoLocation
       /\ wire' = Observe(wire, method, st, location)
       /\ LET hops2 == Append(hops, [url |-> currentUrl, status_code |-> st])
              next == NextHop(st, location, currentUrl)
          IN /\ hops' = hops2
             /\ IF LoopContinues(next, hops2, visited)
                  THEN /\ currentUrl' = Val(next)
                       /\ visited' = visited \cup {Val(next)}
                       /\ method' = "HEAD"
                       /\ UNCHANGED <<pc, redirect_chain>>
                  ELSE /\ currentUrl' = IF IsNull(next) THEN currentUrl ELSE Val(next)
                       /\ UNCHANGED visited
                       /\ method' = "none"
                       /\ pc' = "returned"
                       /\ redirect_chain' = Some(RedirectChainResult(url, hops2))
  /\ UNCHANGED <<url, probe, probeTarget, sitemap, robots, tech_stack, dns,
                 wellKnownProvider, errors, live, status, onProgress>>

\* GET fails after HEAD failed: checkRedirectChain throws
ChainThrows ==
  /\ UNCHANGED <<bulkVars, unitVars>>
  /\ pc = "redirect"
  /\ method = "GET"
  /\ pc' = "threw"
  /\ method' = "none"
  /\ UNCHANGED <<url, currentUrl, visited, hops, redirect_chain, probe,
                 probeTarget, sitemap, robots, tech_stack, dns,
                 wellKnownProvider, errors, live, status, onProgress, wire>>

NextChain ==
  \/ ScanStart
  \/ ChainResponds
  \/ HeadFails
  \/ ChainThrows

SpecChain == InitChain /\ [][NextChain]_vars

\* ------------------------------------------------------------------------
\* pLimit and the bulk re-scan of rescanSelected
\* ------------------------------------------------------------------------
Min(a, b) == IF a < b THEN a ELSE b

\* Variant of NumWorkers: one worker per item
NumWorkers_PerItem(concurrency, n) == n


\* Array.from({ length: Math.min(concurrency, queue.length) }, ...)
NumWorkers(concurrency, n) == Min(concurrency, n)

\* Variant of LoopGuard: the abort predicate is not consulted
LoopGuard_NoAbort(q, ab) == Len(q) > 0


\* while (queue.length > 0 && !shouldAbort())
LoopGuard(q, ab) == Len(q) > 0 /\ ~ab

\* What queue.shift() gives on an empty array
Undefined == 0

Exited == [state |-> "exited", item |-> Undefined]

\* Variant of Shift: the first item is read and left in the queue
Shift_Peek(q) ==
  IF q = <<>> THEN [item |-> Undefined, queue |-> q]
  ELSE [item |-> Head(q), queue |-> q]

\* queue.shift(): removes the first item and returns it, in one step
Shift(q) ==
  IF q = <<>> THEN [item |-> Undefined, queue |-> q]
  ELSE [item |-> Head(q), queue |-> Tail(q)]

\* Variant of CatchTask: the task lets the failure out
CatchTask_Rethrow(scan) == [rejects |-> TRUE, bulkScan |-> scan]

\* The catch block of the task: the failure is counted and the task resolves
CatchTask(scan) == [rejects |-> FALSE, bulkScan |-> [scan EXCEPT !.failed = @ + 1]]

\* A worker enters (or re-enters) its while loop with the queue q and the
\* abort flag ab, and runs up to its next suspension: it leaves the loop, or
\* it shifts an item and calls task(item), which returns at once when the
\* flag is set and otherwise runs into scanSite.
RECURSIVE WorkerLoop(_, _)
WorkerLoop(q, ab) ==
  IF ~LoopGuard(q, ab)
    THEN [worker |-> Exited, queue |-> q, taken |-> <<>>]
    ELSE LET sh == Shift(q)
         IN IF ab
              THEN LET rest == WorkerLoop(sh.queue, ab)
                   IN [rest EXCEPT !.taken = <<sh.item>> \o rest.taken]
              ELSE [worker |-> [state |-> "scanning", item |-> sh.item],
                    queue |-> sh.queue, taken |-> <<sh.item>>]

\* The workers are created one after the other, each running WorkerLoop
RECURSIVE SpawnWorkers(_, _, _)
SpawnWorkers(k, q, ab) ==
  IF k = 0
    THEN [workers |-> <<>>, queue |-> q, taken |-> <<>>]
    ELSE LET first == WorkerLoop(q, ab)
             rest == SpawnWorkers(k - 1, first.queue, ab)
         IN [workers |-> <<first.worker>> \o rest.workers,
             queue |-> rest.queue,
             taken |-> first.taken \o rest.taken]

InFlight(ws) == {w \in 1..Len(ws) : ws[w].state \in {"scanning", "posting"}}

\* Promise.allSettled(workers) resolves when every worker has left its loop:
\* pLimit returns and rescanSelected clears the running flag
AllExited(ws) == \A w \in 1..Len(ws) : ws[w].state = "exited"

DomainLists == {[k \in 1..n |-> k] : n \in 0..MaxDomains}

InitBulk ==
  /\ UnitsIdle
  /\ ScanIdle
  /\ url = BadUrl
  /\ BulkIdle
  /\ domains \in DomainLists

\* rescanSelected up to the dynamic imports
RescanSelected ==
  /\ UNCHANGED <<scanVars, unitVars>>
  /\ bpc = "idle"
  /\ ~bulkScan.running
  /\ Len(domains) # 0
  /\ bulkAborted' = FALSE
  /\ bulkScan' = [running |-> TRUE, total |-> Len(domains), done |-> 0, failed |-> 0]
  /\ bpc' = "importing"
  /\ UNCHANGED <<domains, queue, workers, dispatched, posted>>

\* stopBulkRescan: the Stop button, shown while the run is on
StopBulkRescan ==
  /\ UNCHANGED <<scanVars, unitVars>>
  /\ bulkScan.running
  /\ ~bulkAborted
  /\ bulkAborted' = TRUE
  /\ UNCHANGED <<bpc, domains, queue, workers, bulkScan, dispatched, posted>>

\* The imports are loaded: pLimit copies the items and creates the workers
PLimitStart ==
  /\ UNCHANGED <<scanVars, unitVars>>
  /\ bpc = "importing"
  /\ LET r == SpawnWorkers(NumWorkers(BULK_CONCURRENCY, Len(domains)), domains, bulkAborted)
     IN /\ workers' = r.workers
        /\ queue' = r.queue
        /\ dispatched' = r.taken
        /\ bpc' = IF AllExited(r.workers) THEN "returned" ELSE "running"
        /\ bulkScan' = [bulkScan EXCEPT !.running = ~AllExited(r.workers)]
  /\ UNCHANGED <<domains, bulkAborted, posted>>

\* The worker w goes on after its task has settled
WorkerResumes(w, scan) ==
  LET r == WorkerLoop(queue, bulkAborted)
      ws == [workers EXCEPT ![w] = r.worker]
  IN /\ workers' = ws
     /\ queue' = r.queue
     /\ dispatched' = dispatched \o r.taken
     /\ bpc' = IF AllExited(ws) THEN "returned" ELSE "running"
     /\ bulkScan' = [scan EXCEPT !.running = ~AllExited(ws)]

\* Variant of DropResult: the flag is not looked at after the scan
DropResult_Never(ab) == FALSE

\* if (bulkAbortedRef.current) return; // don't save if stopped
DropResult(ab) == ab

\* scanSite of worker w's task resolves: the task drops the result when the
\* run was stopped, and otherwise posts it
ScanResolves ==
  /\ UNCHANGED <<scanVars, unitVars>>
  /\ bpc = "running"
  /\ \E w \in 1..Len(workers) :
       /\ workers[w].state = "scanning"
       /\ IF DropResult(bulkAborted)
            THEN /\ WorkerResumes(w, bulkScan)
                 /\ UNCHANGED posted
            ELSE /\ workers' = [workers EXCEPT ![w].state = "posting"]
                 /\ posted' = posted \cup {workers[w].item}
                 /\ UNCHANGED <<bpc, queue, bulkScan, dispatched>>
  /\ UNCHANGED <<domains, bulkAborted>>

\* api.postScan of worker w's task resolves
PostResolves ==
  /\ UNCHANGED <<scanVars, unitVars>>
  /\ bpc = "running"
  /\ \E w \in 1..Len(workers) :
       /\ workers[w].state = "posting"
       /\ WorkerResumes(w, [bulkScan EXCEPT !.done = @ + 1])
  /\ UNCHANGED <<domains, bulkAborted, posted>>

\* api.postScan of worker w's task rejects: the task's catch block counts it
\* and the worker goes on; a task that rejected would end its worker, whose
\* promise pLimit's allSettled takes as settled
PostRejects ==
  /\ UNCHANGED <<scanVars, unitVars>>
  /\ bpc = "running"
  /\ \E w \in 1..Len(workers) :
       /\ workers[w].state = "posting"
       /\ LET c == CatchTask(bulkScan)
              ws == [workers EXCEPT ![w] = Exited]
          IN IF c.rejects
               THEN /\ workers' = ws
                    /\ bpc' = IF AllExited(ws) THEN "returned" ELSE "running"
                    /\ bulkScan' = [c.bulkScan EXCEPT !.running = ~AllExited(ws)]
                    /\ UNCHANGED <<queue, dispatched>>
               ELSE WorkerResumes(w, c.bulkScan)
  /\ UNCHANGED <<domains, bulkAborted, posted>>

NextBulk ==
  \/ RescanSelected
  \/ StopBulkRescan
  \/ PLimitStart
  \/ ScanResolves
  \/ PostResolves
  \/ PostRejects

SpecBulk == InitBulk /\ [][NextBulk]_vars

\* Every request of a scan settles (each one has a timeout), so a step that
\* is possible is eventually taken
FairSpecScan == SpecScan /\ WF_vars(NextScan)

\* The dynamic imports load, every scanSite call returns and every postScan
\* request settles one way or the other; whether and when the user starts or
\* stops a run is left open
FairSpecBulk ==
  /\ SpecBulk
  /\ WF_vars(PLimitStart)
  /\ WF_vars(ScanResolves)
  /\ WF_vars(PostResolves \/ PostRejects)

\* ------------------------------------------------------------------------
\* What a consumer of the ScanResult takes as the site's hosting provider
\* (the scans route of the server): tech_stack's, else dns's
\* ------------------------------------------------------------------------
ReportedHostingProvider(ts, d) ==
  IF ~IsNull(ts) /\ ~IsNull(Val(ts).hosting_provider)
    THEN Val(ts).hosting_provider
  ELSE IF ~IsNull(d) THEN Val(d).hosting_provider
  ELSE Null


\* ------------------------------------------------------------------------
\* fetchWithTimeout and fetchViaProxy
\* ------------------------------------------------------------------------
FetchMethods == {Null, Some("GET"), Some("HEAD")}

\* The substrings the catch block looks for in err.message
NetworkKeywords == {"Failed to fetch", "NetworkError", "CORS", "Network", "fetch"}

\* Errors a direct fetch rejects with other than the abort: an error is its
\* name, its message and the substrings of NetworkKeywords the message has
FetchErrors ==
  {[name |-> "TypeError", message |-> "Failed to fetch",
    includes |-> {"Failed to fetch", "fetch"}],
   [name |-> "TypeError", message |-> "NetworkError when attempting to fetch resource.",
    includes |-> {"NetworkError", "Network", "fetch"}],
   [name |-> "TypeError", message |-> "Load failed", includes |-> {}],
   [name |-> "TypeError", message |-> "Invalid name", includes |-> {}]}

\* What the fetch rejects with when controller.abort() is called
AbortError ==
  [name |-> "AbortError", message |-> "The user aborted a request.", includes |-> {}]

\* The method fetch() uses for init.method
RequestMethod(m) == IF IsNull(m) THEN "GET" ELSE Val(m)

\* (fetchOptions.method as string) || 'GET'
ProxyMethod(m) == IF IsNull(m) THEN "GET" ELSE Val(m)

\* Variant of CatchDirect: every error other than the abort goes to the proxy
CatchDirect_ProxyOnAny(err) ==
  IF err.name = "AbortError" THEN "timeout" ELSE "proxy"

\* The catch block of fetchWithTimeout
CatchDirect(err) ==
  IF err.name = "AbortError" THEN "timeout"
  ELSE IF err.includes \cap NetworkKeywords # {} THEN "proxy"
  ELSE "rethrow"

FetchReturned(via, st) == [threw |-> FALSE, via |-> via, status |-> st, error |-> ""]
FetchThrew(via, msg) == [threw |-> TRUE, via |-> via, status |-> 0, error |-> msg]

notFetchVars ==
  <<scanVars, bulkVars, proxyVars, diffVars, indexVars,
    sitemapVars, cmsVars, robotsVars, wellKnownVars, techVars,
    rescanVars>>

InitFetch ==
  /\ ScanIdle
  /\ url = BadUrl
  /\ BulkIdle
  /\ domains = <<>>
  /\ ProxyIdle
  /\ DiffIdle
  /\ IndexIdle
  /\ SitemapIdle
  /\ CmsIdle
  /\ RobotsIdle
  /\ WellKnownIdle
  /\ TechIdle
  /\ RescanIdle
  /\ fpc = "idle"
  /\ fetchUrl \in URLS
  /\ fetchMethod \in FetchMethods
  /\ timer = "none"
  /\ fetchErr = Null
  /\ directRequests = <<>>
  /\ proxyRequests = <<>>
  /\ fetchResult = Null

\* fetchWithTimeout is called: the timer is set and the direct fetch sent
FetchWithTimeout ==
  /\ UNCHANGED notFetchVars
  /\ fpc = "idle"
  /\ fpc' = "direct"
  /\ timer' = "armed"
  /\ directRequests' = Append(directRequests,
                              [url |-> fetchUrl, method |-> RequestMethod(fetchMethod)])
  /\ UNCHANGED <<fetchUrl, fetchMethod, fetchErr, proxyRequests, fetchResult>>

\* The direct fetch resolves before the timer fires
DirectResolves ==
  /\ UNCHANGED notFetchVars
  /\ fpc = "direct"
  /\ \E st \in Statuses : fetchResult' = Some(FetchReturned("direct", st))
  /\ timer' = "cleared"
  /\ fpc' = "returned"
  /\ UNCHANGED <<fetchUrl, fetchMethod, fetchErr, directRequests, proxyRequests>>

\* The direct fetch has rejected with err: the catch block
DirectFailed(err) ==
  /\ fetchErr' = Some(err)
  /\ LET c == CatchDirect(err)
     IN IF c = "timeout"
          THEN /\ fpc' = "threw"
               /\ fetchResult' = Some(FetchThrew("direct", "Request timeout"))
               /\ UNCHANGED proxyRequests
        ELSE IF c = "proxy"
          THEN /\ fpc' = "proxy"
               /\ proxyRequests' = Append(proxyRequests,
                                          [url |-> fetchUrl, method |-> ProxyMethod(fetchMethod)])
               /\ UNCHANGED fetchResult
        ELSE /\ fpc' = "threw"
             /\ fetchResult' = Some(FetchThrew("direct", err.message))
             /\ UNCHANGED proxyRequests
  /\ UNCHANGED <<fetchUrl, fetchMethod, directRequests>>

\* The direct fetch rejects before the timer fires
DirectRejects ==
  /\ UNCHANGED notFetchVars
  /\ fpc = "direct"
  /\ timer' = "cleared"
  /\ \E err \in FetchErrors : DirectFailed(err)

\* The timer fires while the direct fetch is pending: controller.abort()
\* rejects the fetch
TimerFires ==
  /\ UNCHANGED notFetchVars
  /\ fpc = "direct"
  /\ timer = "armed"
  /\ timer' = "fired"
  /\ DirectFailed(AbortError)

\* The post to PROXY_URL is answered: not ok, ok without success, or ok with
\* the target's status
ProxyResolves ==
  /\ UNCHANGED notFetchVars
  /\ fpc = "proxy"
  /\ \E ok \in BOOLEAN, success \in BOOLEAN, st \in Statuses :
       /\ ~(ok /\ success) => st = 200
       /\ ~ok => ~success
       /\ IF ~ok
            THEN fetchResult' = Some(FetchThrew("proxy", "Proxy error"))
          ELSE IF ~success
            THEN fetchResult' = Some(FetchThrew("proxy", "Proxy failed"))
          ELSE fetchResult' = Some(FetchReturned("proxy", st))
       /\ fpc' = IF ok /\ success THEN "returned" ELSE "threw"
  /\ UNCHANGED <<fetchUrl, fetchMethod, timer, fetchErr, directRequests, proxyRequests>>

\* The post to PROXY_URL itself fails
ProxyRejects ==
  /\ UNCHANGED notFetchVars
  /\ fpc = "proxy"
  /\ fpc' = "threw"
  /\ fetchResult' = Some(FetchThrew("proxy", "Failed to fetch"))
  /\ UNCHANGED <<fetchUrl, fetchMethod, timer, fetchErr, directRequests, proxyRequests>>

NextFetch ==
  \/ FetchWithTimeout
  \/ DirectResolves
  \/ DirectRejects
  \/ TimerFires
  \/ ProxyResolves
  \/ ProxyRejects

SpecFetch == InitFetch /\ [][NextFetch]_vars


\* ------------------------------------------------------------------------
\* The proxy route and its ssrfProtection middleware
\* ------------------------------------------------------------------------
IPv4(a, b, c, d) == [kind |-> "ipv4", parts |-> <<a, b, c, d>>]
IPv6(g) == [kind |-> "ipv6", parts |-> g]
Cidr(ip, bits) == [net |-> ip, bits |-> bits]

RECURSIVE Pow2(_)
Pow2(n) == IF n = 0 THEN 1 ELSE 2 * Pow2(n - 1)

\* ipaddr.js match: the first bits bits of addr and net are the same, the
\* parts being width bits wide
Match(addr, net, bits, width) ==
  \A g \in 1..Len(addr) :
    LET b == bits - width * (g - 1)
    IN IF b >= width THEN addr[g] = net[g]
       ELSE IF b <= 0 THEN TRUE
       ELSE addr[g] \div Pow2(width - b) = net[g] \div Pow2(width - b)

\* Variant of BLOCKED_CIDRS: the carrier-grade NAT range is not listed
BLOCKED_CIDRS_NoCgnat ==
  {Cidr(IPv4(10, 0, 0, 0), 8), Cidr(IPv4(172, 16, 0, 0), 12),
   Cidr(IPv4(192, 168, 0, 0), 16), Cidr(IPv4(127, 0, 0, 0), 8),
   Cidr(IPv4(169, 254, 0, 0), 16),
   Cidr(IPv4(0, 0, 0, 0), 8), Cidr(IPv4(240, 0, 0, 0), 4)}

BLOCKED_CIDRS ==
  {Cidr(IPv4(10, 0, 0, 0), 8), Cidr(IPv4(172, 16, 0, 0), 12),
   Cidr(IPv4(192, 168, 0, 0), 16), Cidr(IPv4(127, 0, 0, 0), 8),
   Cidr(IPv4(169, 254, 0, 0), 16), Cidr(IPv4(100, 64, 0, 0), 10),
   Cidr(IPv4(0, 0, 0, 0), 8), Cidr(IPv4(240, 0, 0, 0), 4)}

BLOCKED_IPV6_CIDRS ==
  {Cidr(IPv6(<<0, 0, 0, 0, 0, 0, 0, 1>>), 128),
   Cidr(IPv6(<<64512, 0, 0, 0, 0, 0, 0, 0>>), 7),
   Cidr(IPv6(<<65152, 0, 0, 0, 0, 0, 0, 0>>), 10),
   Cidr(IPv6(<<0, 0, 0, 0, 0, 65535, 0, 0>>), 96)}

isPrivateIp(address) ==
  IF address.kind = "ipv4"
    THEN \E cidr \in BLOCKED_CIDRS : Match(address.parts, cidr.net.parts, cidr.bits, 8)
    ELSE \E cidr \in BLOCKED_IPV6_CIDRS : Match(address.parts, cidr.net.parts, cidr.bits, 16)

\* Addresses a lookup gives: in each blocked range, next to its ends, and
\* outside of all of them
LookupAddresses ==
  {IPv4(8, 8, 8, 8), IPv4(93, 184, 216, 34),
   IPv4(10, 0, 0, 1), IPv4(11, 0, 0, 1),
   IPv4(172, 15, 255, 255), IPv4(172, 16, 0, 1), IPv4(172, 31, 255, 255), IPv4(172, 32, 0, 0),
   IPv4(192, 168, 1, 1), IPv4(192, 169, 0, 1),
   IPv4(127, 0, 0, 1), IPv4(169, 254, 169, 254),
   IPv4(100, 63, 255, 255), IPv4(100, 64, 0, 1), IPv4(100, 127, 255, 255), IPv4(100, 128, 0, 0),
   IPv6(<<0, 0, 0, 0, 0, 0, 0, 1>>), IPv6(<<65152, 0, 0, 0, 0, 0, 0, 1>>),
   IPv6(<<0, 0, 0, 0, 0, 65535, 2560, 1>>), IPv6(<<9734, 18176, 0, 0, 0, 0, 0, 1>>)}

\* dns.lookup(hostname, { all: true }) gives one address or two
LookupResults ==
  {{a} : a \in LookupAddresses}
    \cup {{IPv4(93, 184, 216, 34), a} : a \in LookupAddresses}

ProxyHostnames == {"localhost", "metadata.google.internal", "169.254.169.254", "example.gov"}

blockedHostnames == {"localhost", "metadata.google.internal", "169.254.169.254"}

\* req.body.url: absent, not a URL, or a URL with its protocol and hostname
ProxyUrls ==
  {[kind |-> "absent", protocol |-> "", hostname |-> ""],
   [kind |-> "invalid", protocol |-> "", hostname |-> ""]}
    \cup {[kind |-> "url", protocol |-> p, hostname |-> h] :
            p \in {"http:", "https:", "ftp:"}, h \in ProxyHostnames}

\* req.body.method, Null when absent
ProxyMethods == {Null, Some("GET"), Some("get"), Some("HEAD"), Some("POST"), Some("DELETE")}

toUpperCase(m) == IF m = "get" THEN "GET" ELSE m

\* const { url, method = 'GET' } = req.body
BodyMethod(body) == IF IsNull(body.method) THEN "GET" ELSE Val(body.method)

allowedMethods == {"GET", "HEAD"}

notProxyVars ==
  <<scanVars, bulkVars, fetchVars, diffVars, indexVars,
    sitemapVars, cmsVars, robotsVars, wellKnownVars, techVars,
    rescanVars>>

InitProxy ==
  /\ ScanIdle
  /\ url = BadUrl
  /\ BulkIdle
  /\ domains = <<>>
  /\ FetchIdle
  /\ DiffIdle
  /\ IndexIdle
  /\ SitemapIdle
  /\ CmsIdle
  /\ RobotsIdle
  /\ WellKnownIdle
  /\ TechIdle
  /\ RescanIdle
  /\ ppc = "idle"
  /\ reqBody \in {Some([url |-> u, method |-> m]) : u \in ProxyUrls, m \in ProxyMethods}
  /\ addresses = {}
  /\ proxyStatus = 0
  /\ outbound = <<>>

Answer(st) ==
  /\ ppc' = "answered"
  /\ proxyStatus' = st

\* The request arrives: ssrfProtection up to its dns.lookup
ssrfProtection ==
  /\ UNCHANGED notProxyVars
  /\ ppc = "idle"
  /\ LET u == Val(reqBody).url
     IN IF u.kind \in {"absent", "invalid"} THEN Answer(400)
        ELSE IF u.protocol \notin {"http:", "https:"} THEN Answer(400)
        ELSE IF u.hostname \in blockedHostnames THEN Answer(403)
        ELSE ppc' = "lookup" /\ UNCHANGED proxyStatus
  /\ UNCHANGED <<reqBody, addresses, outbound>>

\* dns.lookup resolves: the addresses are tested and, none being blocked,
\* next() runs the route handler up to its outbound fetch
LookupResolves ==
  /\ UNCHANGED notProxyVars
  /\ ppc = "lookup"
  /\ \E as \in LookupResults :
       /\ addresses' = as
       /\ IF \E a \in as : isPrivateIp(a)
            THEN Answer(403) /\ UNCHANGED outbound
          ELSE IF toUpperCase(BodyMethod(Val(reqBody))) \notin allowedMethods
            THEN Answer(400) /\ UNCHANGED outbound
          ELSE /\ ppc' = "fetching"
               /\ outbound' = Append(outbound,
                                     [url |-> Val(reqBody).url,
                                      method |-> toUpperCase(BodyMethod(Val(reqBody)))])
               /\ UNCHANGED proxyStatus
  /\ UNCHANGED reqBody

\* dns.lookup rejects
LookupRejects ==
  /\ UNCHANGED notProxyVars
  /\ ppc = "lookup"
  /\ Answer(400)
  /\ UNCHANGED <<reqBody, addresses, outbound>>

\* The outbound fetch resolves: res.json({ success: true, ... })
OutboundResolves ==
  /\ UNCHANGED notProxyVars
  /\ ppc = "fetching"
  /\ Answer(200)
  /\ UNCHANGED <<reqBody, addresses, outbound>>

\* The outbound fetch rejects: 504 for a timeout, 502 otherwise
OutboundRejects ==
  /\ UNCHANGED notProxyVars
  /\ ppc = "fetching"
  /\ \E st \in {502, 504} : Answer(st)
  /\ UNCHANGED <<reqBody, addresses, outbound>>

NextProxy ==
  \/ ssrfProtection
  \/ LookupResolves
  \/ LookupRejects
  \/ OutboundResolves
  \/ OutboundRejects

SpecProxy == InitProxy /\ [][NextProxy]_vars


\* ------------------------------------------------------------------------
\* computeDiff
\* A value is its type (t) and, for a string, what JSON.parse makes of it
\* (of: none when it throws), the items of the array or the keys of the
\* object in their order (doc), the number (n) and the spelling of a JSON
\* text (form: 0 without spaces, 1 with a space after each separator).
\* ------------------------------------------------------------------------
V(t, of, doc, n, form) == [t |-> t, of |-> of, doc |-> doc, n |-> n, form |-> form]

Undef == V("undefined", "", <<>>, 0, 0)
Absent == V("absent", "", <<>>, 0, 0)

DiffValues ==
  {Undef,
   V("null", "", <<>>, 0, 0),
   V("number", "", <<>>, 1, 0),
   V("string", "number", <<>>, 1, 0),
   V("string", "array", <<"x", "y">>, 0, 0),
   V("string", "array", <<"x", "y">>, 0, 1),
   V("array", "", <<"x", "y">>, 0, 0),
   V("string", "object", <<"a", "b">>, 0, 0),
   V("string", "object", <<"a", "b">>, 0, 1),
   V("string", "object", <<"b", "a">>, 0, 0)}

VolatileValues == {V("number", "", <<>>, 1, 0), V("string", "number", <<>>, 1, 0)}

SKIP_FIELDS == {"imported_at", "updated_at", "scan_date"}

JSON_FIELDS ==
  {"dap_parameters", "third_party_service_domains", "third_party_service_urls",
   "cookie_domains", "source_list", "required_links_url", "required_links_text",
   "robots_txt_sitemap_locations", "uswds_usa_class_list"}

\* The keys of the maps, in the order they are set
KeyOrder == <<"tags", "dap_parameters", "scan_date">>

DiffKeySet == {KeyOrder[k] : k \in 1..Len(KeyOrder)}

FieldMaps ==
  {m \in [DiffKeySet -> DiffValues \cup {Absent}] :
     m["scan_date"] \in VolatileValues \cup {Absent}}

\* JSON.parse: Null when it throws; the spelling of the text is gone
JSON_parse(s) ==
  IF s.of = "none" THEN Null
  ELSE Some(V(s.of, "", s.doc, s.n, 0))

\* JSON.stringify: undefined for undefined, else the text without spaces,
\* a string being quoted as it is
JSON_stringify(v) ==
  IF v.t = "undefined" THEN Undef
  ELSE IF v.t = "string" THEN V("quoted", v.of, v.doc, v.n, v.form)
  ELSE V("string", v.t, v.doc, v.n, 0)

\* Variant of parseVal: the value is taken as it is
parseVal_Raw(key, val) == val

parseVal(key, val) ==
  IF key \in JSON_FIELDS /\ val.t = "string"
    THEN IF IsNull(JSON_parse(val)) THEN val ELSE Val(JSON_parse(val))
    ELSE val

\* The keys handleRescan sets in scanFields, in the order it sets them
ScanFieldOrder ==
  <<"cms", "web_server", "cdn_provider", "hosting_provider", "https_enforced", "hsts",
    "uswds_count", "uswds_usa_classes", "uswds_favicon", "uswds_banner_heres_how",
    "dap", "ga_tag_id", "wp_version", "wp_theme",
    "sitemap_xml_detected", "sitemap_xml_status_code", "sitemap_xml_count",
    "robots_txt_detected", "robots_txt_status_code", "ipv6">>

\* Object.keys(m)
ObjectKeys(m) ==
  SelectSeq(KeyOrder \o ScanFieldOrder, LAMBDA k : k \in DOMAIN m /\ m[k] # Absent)

\* m[key]: undefined for a key the map does not have
Get(m, key) == IF m[key] = Absent THEN Undef ELSE m[key]

\* new Set(keys), in insertion order
NewSet(keys) ==
  LET numbered == [i \in 1..Len(keys) |-> [at |-> i, key |-> keys[i]]]
      first == SelectSeq(numbered, LAMBDA e : \A j \in 1..(e.at - 1) : keys[j] # e.key)
  IN [i \in 1..Len(first) |-> first[i].key]

\* The test of the for loop of computeDiff: the texts of the two values differ
Changed(key, b, a) ==
  JSON_stringify(parseVal(key, Get(b, key))) # JSON_stringify(parseVal(key, Get(a, key)))

\* The for loop of computeDiff over keys: a key of SKIP_FIELDS is passed over,
\* a key whose values differ is pushed to changed, any other key is counted
DiffLoop(keys, b, a, acc) ==
  LET compared == SelectSeq(keys, LAMBDA key : key \notin SKIP_FIELDS)
      pushed == SelectSeq(compared, LAMBDA key : Changed(key, b, a))
  IN [changed |->
        acc.changed \o
          [i \in 1..Len(pushed) |->
             [field |-> pushed[i],
              before |-> parseVal(pushed[i], Get(b, pushed[i])),
              after |-> parseVal(pushed[i], Get(a, pushed[i]))]],
      unchanged_count |-> acc.unchanged_count + (Len(compared) - Len(pushed))]

\* Variant of AllKeys: the keys of both maps one after the other
AllKeys_Concat(b, a) == ObjectKeys(b) \o ObjectKeys(a)

\* new Set([...Object.keys(before), ...Object.keys(after)])
AllKeys(b, a) == NewSet(ObjectKeys(b) \o ObjectKeys(a))

computeDiff(b, a) ==
  DiffLoop(AllKeys(b, a), b, a, [changed |-> <<>>, unchanged_count |-> 0])

notDiffVars ==
  <<scanVars, bulkVars, fetchVars, proxyVars, indexVars,
    sitemapVars, cmsVars, robotsVars, wellKnownVars, techVars,
    rescanVars>>

InitDiff ==
  /\ ScanIdle
  /\ url = BadUrl
  /\ BulkIdle
  /\ domains = <<>>
  /\ FetchIdle
  /\ ProxyIdle
  /\ IndexIdle
  /\ SitemapIdle
  /\ CmsIdle
  /\ RobotsIdle
  /\ WellKnownIdle
  /\ TechIdle
  /\ RescanIdle
  /\ before \in FieldMaps
  /\ after \in FieldMaps
  /\ diff = Null

\* computeDiff(before, after) is called and returns
ComputeDiff ==
  /\ UNCHANGED notDiffVars
  /\ diff = Null
  /\ diff' = Some(computeDiff(before, after))
  /\ UNCHANGED <<before, after>>

NextDiff == ComputeDiff

SpecDiff == InitDiff /\ [][NextDiff]_vars


\* ------------------------------------------------------------------------
\* analyzeSitemapIndex
\* ------------------------------------------------------------------------
MAX_SUB_SITEMAPS == 20

\* A <url> element: whether it has a <loc>, and the ending of the loc
UrlEntry(hasLoc, ext) == [hasLoc |-> hasLoc, ext |-> ext]

\* The child sitemaps the servers hold: A with 100 URLs of which 3 are
\* PDFs, B with 50 URLs, C with a .PDF, a <url> without <loc> and a page
ChildDocs == {"A", "B", "C"}

UrlsOf(doc) ==
  IF doc = "A" THEN [k \in 1..100 |-> IF k <= 3 THEN UrlEntry(TRUE, "pdf")
                                      ELSE UrlEntry(TRUE, "html")]
  ELSE IF doc = "B" THEN [k \in 1..50 |-> UrlEntry(TRUE, "html")]
  ELSE <<UrlEntry(TRUE, "PDF"), UrlEntry(FALSE, ""), UrlEntry(TRUE, "html")>>

toLowerCase(ext) == IF ext = "PDF" THEN "pdf" ELSE ext

\* What the forEach over the <url> elements of a child adds to totalPages
PagesIn(doc) ==
  Cardinality({k \in 1..Len(UrlsOf(doc)) : UrlsOf(doc)[k].hasLoc})

\* and to pdfCount
PdfsIn(doc) ==
  Cardinality({k \in 1..Len(UrlsOf(doc)) :
                 UrlsOf(doc)[k].hasLoc /\ toLowerCase(UrlsOf(doc)[k].ext) = "pdf"})

\* A <sitemap> element of the index: whether it has a <loc>, and the
\* document its loc points to
SitemapElements ==
  {[hasLoc |-> TRUE, doc |-> d] : d \in ChildDocs} \cup {[hasLoc |-> FALSE, doc |-> ""]}

\* The index documents: up to MaxChildren elements of any kind, and one of
\* MAX_SUB_SITEMAPS + 1 elements
BigIndex ==
  [k \in 1..(MAX_SUB_SITEMAPS + 1) |->
     [hasLoc |-> TRUE, doc |-> IF k <= MAX_SUB_SITEMAPS THEN "C" ELSE "A"]]

IndexDocs ==
  UNION {[1..n -> SitemapElements] : n \in 1..MaxChildren} \cup {BigIndex}

\* Variant of SliceChildren: every element is taken
SliceChildren_All(doc) == doc

\* Array.from(...).slice(0, MAX_SUB_SITEMAPS)
SliceChildren(doc) == SubSeq(doc, 1, Min(Len(doc), MAX_SUB_SITEMAPS))

\* Number of elements of the sequence els that are el
CountOf(els, el) == Cardinality({k \in 1..Len(els) : els[k] = el})

\* pdf_count: pdfCount > 0 ? pdfCount : null
PdfCountField(n) == IF n > 0 THEN Some(n) ELSE Null

IndexResult(pages, pdfs, found) ==
  [detected |-> TRUE, page_count |-> pages, pdf_count |-> PdfCountField(pdfs),
   sitemaps_found |-> found]

NonePending(pend) == \A el \in SitemapElements : pend[el] = 0

notIndexVars ==
  <<scanVars, bulkVars, fetchVars, proxyVars, diffVars,
    sitemapVars, cmsVars, robotsVars, wellKnownVars, techVars,
    rescanVars>>

InitIndex ==
  /\ ScanIdle
  /\ url = BadUrl
  /\ BulkIdle
  /\ domains = <<>>
  /\ FetchIdle
  /\ ProxyIdle
  /\ DiffIdle
  /\ SitemapIdle
  /\ CmsIdle
  /\ RobotsIdle
  /\ WellKnownIdle
  /\ TechIdle
  /\ RescanIdle
  /\ ipc = "idle"
  /\ indexDoc \in IndexDocs
  /\ pending = <<>>
  /\ childRequests = 0
  /\ fetchedOk = <<>>
  /\ totalPages = 0
  /\ pdfCount = 0
  /\ indexResult = Null

\* analyzeSitemapIndex is called: the async function of every element runs
\* up to its fetch, or returns for an element without <loc>
AnalyzeSitemapIndex ==
  /\ UNCHANGED notIndexVars
  /\ ipc = "idle"
  /\ LET els == SliceChildren(indexDoc)
         pend == [el \in SitemapElements |-> IF el.hasLoc THEN CountOf(els, el) ELSE 0]
     IN /\ pending' = pend
        /\ childRequests' = Cardinality({k \in 1..Len(els) : els[k].hasLoc})
        /\ IF NonePending(pend)
             THEN /\ ipc' = "returned"
                  /\ indexResult' = Some(IndexResult(totalPages, pdfCount, Len(els)))
             ELSE /\ ipc' = "fetching"
                  /\ UNCHANGED indexResult
  /\ UNCHANGED <<indexDoc, fetchedOk, totalPages, pdfCount>>

\* The fetch of one child settles: its URLs are counted when it was
\* answered ok and its text read; the last child to settle lets
\* Promise.allSettled resolve and the result is returned
ChildSettles ==
  /\ UNCHANGED notIndexVars
  /\ ipc = "fetching"
  /\ \E el \in SitemapElements, outcome \in {"ok", "non2xx", "throws"} :
       /\ pending[el] > 0
       /\ LET pend == [pending EXCEPT ![el] = @ - 1]
              pages == IF outcome = "ok" THEN totalPages + PagesIn(el.doc) ELSE totalPages
              pdfs == IF outcome = "ok" THEN pdfCount + PdfsIn(el.doc) ELSE pdfCount
          IN /\ pending' = pend
             /\ totalPages' = pages
             /\ pdfCount' = pdfs
             /\ fetchedOk' = IF outcome = "ok" THEN Append(fetchedOk, el.doc) ELSE fetchedOk
             /\ IF NonePending(pend)
                  THEN /\ ipc' = "returned"
                       /\ indexResult' =
                            Some(IndexResult(pages, pdfs, Len(SliceChildren(indexDoc))))
                  ELSE UNCHANGED <<ipc, indexResult>>
  /\ UNCHANGED <<indexDoc, childRequests>>

NextIndex ==
  \/ AnalyzeSitemapIndex
  \/ ChildSettles

SpecIndex == InitIndex /\ [][NextIndex]_vars


\* ------------------------------------------------------------------------
\* analyzeSitemap on its own
\* ------------------------------------------------------------------------

\* baseUrl: a URL, with a slash at its end or without
BaseUrls == [base : URLS, slash : BOOLEAN]

\* `${baseUrl.replace(/\/$/, '')}/sitemap.xml`
SitemapUrl(b) == [base |-> b.base, file |-> "sitemap.xml"]

SitemapStatuses == {200, 301, 401, 403, 404, 500, 503}

\* Messages fetchWithTimeout throws with
FetchFailures == {"Request timeout", "Proxy error", "Proxy failed"}

UrlEntries == {UrlEntry(TRUE, "pdf"), UrlEntry(TRUE, "html"), UrlEntry(FALSE, "")}

\* What the body parses to: a document with a parsererror, a throw of the
\* parser, a sitemap with its <url> elements, or a sitemap index
XmlDocs ==
  {[kind |-> k, urls |-> <<>>] : k \in {"parsererror", "throws", "index"}}
    \cup {[kind |-> "urlset", urls |-> us] :
            us \in UNION {[1..n -> UrlEntries] : n \in 0..2}}

SitemapResult(detected, sUrl, st, pages, pdfs, err) ==
  [detected |-> detected, url |-> sUrl, status_code |-> st, page_count |-> pages,
   pdf_count |-> pdfs, error |-> err]

\* An error string: its fixed text and the message put after it
ErrorString(text, message) == Some([text |-> text, message |-> message])

\* Variant of OnFetchError: the failure of the fetch leaves analyzeSitemap
OnFetchError_Rethrow(sUrl, msg) == Throw

\* The catch block around the fetch: `Network error: ${err.message}`
OnFetchError(sUrl, msg) ==
  Return(SitemapResult(FALSE, sUrl, 0, Null, Null, ErrorString("Network error: ", msg)))

\* if (!response.ok)
OnNotOk(sUrl, st) == Return(SitemapResult(FALSE, sUrl, st, Null, Null, Null))

\* The body is read: the parse and what follows it. For an index the
\* result is analyzeSitemapIndex's, here with every child failing
OnDocument(sUrl, st, doc) ==
  IF doc.kind = "parsererror"
    THEN Return(SitemapResult(TRUE, sUrl, st, Null, Null, ErrorString("Invalid XML", "")))
  ELSE IF doc.kind = "throws"
    THEN Return(SitemapResult(TRUE, sUrl, st, Null, Null, ErrorString("Parse error", "")))
  ELSE IF doc.kind = "index"
    THEN Return(SitemapResult(TRUE, sUrl, st, Some(0), Null, Null))
  ELSE LET urls == {k \in 1..Len(doc.urls) : doc.urls[k].hasLoc}
           pdfs == {k \in urls : toLowerCase(doc.urls[k].ext) = "pdf"}
       IN Return(SitemapResult(TRUE, sUrl, st, Some(Cardinality(urls)),
                               PdfCountField(Cardinality(pdfs)), Null))

notSitemapVars ==
  <<scanVars, bulkVars, fetchVars, proxyVars, diffVars,
    indexVars, cmsVars, robotsVars, wellKnownVars, techVars,
    rescanVars>>

InitSitemap ==
  /\ ScanIdle
  /\ url = BadUrl
  /\ BulkIdle
  /\ domains = <<>>
  /\ FetchIdle
  /\ ProxyIdle
  /\ DiffIdle
  /\ IndexIdle
  /\ CmsIdle
  /\ RobotsIdle
  /\ WellKnownIdle
  /\ TechIdle
  /\ RescanIdle
  /\ spc = "idle"
  /\ smBaseUrl \in {Some(b) : b \in BaseUrls}
  /\ smStatus = 0
  /\ smDoc = Null
  /\ smResult = Null

\* What analyzeSitemap ends with
SitemapEnds(r) ==
  /\ spc' = IF r.threw THEN "threw" ELSE "returned"
  /\ smResult' = r.value

\* analyzeSitemap is called and sends its fetch
AnalyzeSitemap ==
  /\ UNCHANGED notSitemapVars
  /\ spc = "idle"
  /\ spc' = "fetching"
  /\ UNCHANGED <<smBaseUrl, smStatus, smDoc, smResult>>

\* fetchWithTimeout throws
SitemapFetchRejects ==
  /\ UNCHANGED notSitemapVars
  /\ spc = "fetching"
  /\ \E msg \in FetchFailures : SitemapEnds(OnFetchError(SitemapUrl(Val(smBaseUrl)), msg))
  /\ UNCHANGED <<smBaseUrl, smStatus, smDoc>>

\* The response is there: a result for one that is not ok, else the body
\* is read
SitemapResponds ==
  /\ UNCHANGED notSitemapVars
  /\ spc = "fetching"
  /\ \E st \in SitemapStatuses :
       /\ smStatus' = st
       /\ IF IsOk(st)
            THEN spc' = "reading" /\ UNCHANGED smResult
            ELSE SitemapEnds(OnNotOk(SitemapUrl(Val(smBaseUrl)), st))
  /\ UNCHANGED <<smBaseUrl, smDoc>>

\* await response.text() rejects, outside of every try block
SitemapTextRejects ==
  /\ UNCHANGED notSitemapVars
  /\ spc = "reading"
  /\ SitemapEnds(Throw)
  /\ UNCHANGED <<smBaseUrl, smStatus, smDoc>>

\* await response.text() resolves and the text is parsed
SitemapTextResolves ==
  /\ UNCHANGED notSitemapVars
  /\ spc = "reading"
  /\ \E doc \in XmlDocs :
       /\ smDoc' = Some(doc)
       /\ SitemapEnds(OnDocument(SitemapUrl(Val(smBaseUrl)), smStatus, doc))
  /\ UNCHANGED <<smBaseUrl, smStatus>>

NextSitemap ==
  \/ AnalyzeSitemap
  \/ SitemapFetchRejects
  \/ SitemapResponds
  \/ SitemapTextRejects
  \/ SitemapTextResolves

SpecSitemap == InitSitemap /\ [][NextSitemap]_vars


\* ------------------------------------------------------------------------
\* detectCms
\* A page is the set of the signals its html and headers have; a test of
\* detectCms is the CMS it counts for, its weight and the signals each of
\* which makes it true (a page with Drupal.settings also matches /drupal/i).
\* ------------------------------------------------------------------------
Test(c, weight, anyOf) == [cms |-> c, weight |-> weight, anyOf |-> anyOf]

CmsTests ==
  {Test("WordPress", 50, {"meta generator wordpress"}),
   Test("WordPress", 30, {"wp-content/"}),
   Test("WordPress", 30, {"wp-includes/"}),
   Test("WordPress", 20, {"/wp-json/"}),
   Test("WordPress", 40, {"x-powered-by wordpress"}),
   Test("Drupal", 30, {"drupal", "Drupal.settings"}),
   Test("Drupal", 30, {"/sites/default/files/"}),
   Test("Drupal", 40, {"Drupal.settings"}),
   Test("Drupal", 50, {"x-generator drupal"}),
   Test("Drupal", 30, {"x-drupal-cache"}),
   Test("Joomla", 30, {"/components/com_"}),
   Test("Joomla", 20, {"joomla"}),
   Test("Joomla", 30, {"/media/jui/"}),
   Test("Sitecore", 50, {"meta generator sitecore"}),
   Test("Sitecore", 50, {"x-sitecore-requestid", "x-sitecore-version"}),
   Test("Sitecore", 50, {"SC_ANALYTICS_GLOBAL_COOKIE"}),
   Test("Sitecore", 40, {"/-/media/", "/~/media/"}),
   Test("Sitecore", 30, {"data-sc-"}),
   Test("Sitecore", 30, {"/api/jss/", "/-/jsss/"}),
   Test("Sitecore", 10, {"sitecore", "meta generator sitecore"}),
   Test("Squarespace", 60, {"squarespace"}),
   Test("Wix", 60, {"wixsite.com", "wix.com/dpages"}),
   Test("Shopify", 60, {"shopify", "cdn.shopify.com"})}

\* The signals the pages are made of
CmsSignals ==
  {"meta generator wordpress", "wp-content/", "wp-includes/", "/wp-json/",
   "x-powered-by wordpress", "drupal", "/sites/default/files/", "Drupal.settings",
   "x-generator drupal", "x-drupal-cache", "/components/com_", "joomla", "/media/jui/",
   "meta generator sitecore", "x-sitecore-requestid", "SC_ANALYTICS_GLOBAL_COOKIE",
   "/-/media/", "data-sc-", "/api/jss/", "sitecore", "squarespace", "wixsite.com",
   "shopify"}

\* Pages with up to MaxSignals signals
RECURSIVE SignalSets(_)
SignalSets(n) ==
  IF n = 0 THEN {{}}
  ELSE LET smaller == SignalSets(n - 1)
       IN smaller \cup {f \cup {sig} : f \in smaller, sig \in CmsSignals}

\* The order the candidates are put into scores
CmsOrder == <<"WordPress", "Drupal", "Joomla", "Sitecore", "Squarespace", "Wix", "Shopify">>

RECURSIVE SumWeights(_)
SumWeights(tests) ==
  IF tests = {} THEN 0
  ELSE LET t == CHOOSE x \in tests : TRUE
       IN t.weight + SumWeights(tests \ {t})

\* scores[c] for the page with the signals f
CmsScore(c, f) ==
  SumWeights({t \in CmsTests : t.cms = c /\ t.anyOf \cap f # {}})

\* The loop over Object.entries(scores): a candidate takes over only with a
\* score above the highest so far
RECURSIVE HighestFrom(_, _, _)
HighestFrom(k, f, highest) ==
  IF k > Len(CmsOrder) THEN highest
  ELSE IF CmsScore(CmsOrder[k], f) > highest.score
    THEN HighestFrom(k + 1, f, [name |-> CmsOrder[k], score |-> CmsScore(CmsOrder[k], f)])
  ELSE HighestFrom(k + 1, f, highest)

\* Variant of ClearsThreshold: the score has to be above 40
ClearsThreshold_Above(score) == score > 40

\* highest.score >= 40
ClearsThreshold(score) == score >= 40

detectCms(f) ==
  LET highest == HighestFrom(1, f, [name |-> "", score |-> 0])
  IN IF ClearsThreshold(highest.score) THEN Some(highest.name) ELSE Null

notCmsVars ==
  <<scanVars, bulkVars, fetchVars, proxyVars, diffVars,
    indexVars, sitemapVars, robotsVars, wellKnownVars, techVars,
    rescanVars>>

InitCms ==
  /\ ScanIdle
  /\ url = BadUrl
  /\ BulkIdle
  /\ domains = <<>>
  /\ FetchIdle
  /\ ProxyIdle
  /\ DiffIdle
  /\ IndexIdle
  /\ SitemapIdle
  /\ RobotsIdle
  /\ WellKnownIdle
  /\ TechIdle
  /\ RescanIdle
  /\ cmsSignals \in SignalSets(MaxSignals)
  /\ cmsCalled = FALSE
  /\ cmsResult = Null

\* detectCms(html, headers) is called and returns
DetectCms ==
  /\ UNCHANGED notCmsVars
  /\ ~cmsCalled
  /\ cmsCalled' = TRUE
  /\ cmsResult' = detectCms(cmsSignals)
  /\ UNCHANGED cmsSignals

NextCms == DetectCms

SpecCms == InitCms /\ [][NextCms]_vars


\* ------------------------------------------------------------------------
\* fetchRobotsTxt: the scan of the lines of the body
\* A line is its field name as written and the text after the colon.
\* ------------------------------------------------------------------------
Line(field, text) == [field |-> field, text |-> text]

RobotsLineSet ==
  {Line("Crawl-delay", "1"), Line("crawl-delay", "10"), Line("Crawl-Delay", "2.5"),
   Line("Crawl-delay", "abc"), Line("Sitemap", "https://a.gov/sitemap.xml"),
   Line("User-agent", "*")}

\* robots.txt bodies of up to MaxLines lines
RECURSIVE RobotsTexts(_)
RobotsTexts(n) ==
  IF n = 0 THEN {<<>>}
  ELSE LET shorter == RobotsTexts(n - 1)
       IN shorter \cup {Append(t, l) : t \in shorter, l \in RobotsLineSet}

\* The field name in lower case, as the /i flag of the patterns compares it
LowerField(field) ==
  IF field \in {"Crawl-delay", "crawl-delay", "Crawl-Delay"} THEN "crawl-delay"
  ELSE IF field = "Sitemap" THEN "sitemap"
  ELSE "user-agent"

\* parseFloat of what (\d+) captures at the start of the text, Null when the
\* text does not start with a digit
LeadingDigits(text) ==
  IF text = "1" THEN Some(1)
  ELSE IF text = "10" THEN Some(10)
  ELSE IF text = "2.5" THEN Some(2)
  ELSE Null

\* One iteration of the loop over the lines, for crawlDelay
CrawlDelayAfter(crawlDelay, line) ==
  IF LowerField(line.field) = "crawl-delay" /\ ~IsNull(LeadingDigits(line.text))
    THEN LeadingDigits(line.text)
    ELSE crawlDelay

\* One iteration of the loop over the lines, for sitemapLocations
SitemapLocationsAfter(locs, line) ==
  IF LowerField(line.field) = "sitemap" THEN Append(locs, line.text) ELSE locs

RECURSIVE ScanLines(_, _, _, _)
ScanLines(lines, k, crawlDelay, locs) ==
  IF k > Len(lines) THEN [crawl_delay |-> crawlDelay,
                          sitemap_locations |-> IF Len(locs) > 0 THEN Some(locs) ELSE Null]
  ELSE ScanLines(lines, k + 1, CrawlDelayAfter(crawlDelay, lines[k]),
                 SitemapLocationsAfter(locs, lines[k]))

notRobotsVars ==
  <<scanVars, bulkVars, fetchVars, proxyVars, diffVars,
    indexVars, sitemapVars, cmsVars, wellKnownVars, techVars,
    rescanVars>>

InitRobots ==
  /\ ScanIdle
  /\ url = BadUrl
  /\ BulkIdle
  /\ domains = <<>>
  /\ FetchIdle
  /\ ProxyIdle
  /\ DiffIdle
  /\ IndexIdle
  /\ SitemapIdle
  /\ CmsIdle
  /\ WellKnownIdle
  /\ TechIdle
  /\ RescanIdle
  /\ robotsLines \in RobotsTexts(MaxLines)
  /\ robotsReturned = FALSE
  /\ robotsResult = Null

\* The body of an ok response is read and scanned, fetchRobotsTxt returns
RobotsTextResolves ==
  /\ UNCHANGED notRobotsVars
  /\ ~robotsReturned
  /\ robotsReturned' = TRUE
  /\ robotsResult' = Some(ScanLines(robotsLines, 1, Null, <<>>))
  /\ UNCHANGED robotsLines

NextRobots == RobotsTextResolves

SpecRobots == InitRobots /\ [][NextRobots]_vars


\* ------------------------------------------------------------------------
\* checkHostingProvider
\* A body is the number of characters it has between its leading and
\* trailing white space, whether it has such white space, and whether it has
\* a '<'.
\* ------------------------------------------------------------------------
Text(padded, len, lt) == [padded |-> padded, len |-> len, lt |-> lt]

WellKnownBodies ==
  {Text(padded, len, lt) : padded \in BOOLEAN, len \in {1, 50, 99, 100, 101},
                           lt \in BOOLEAN}
    \cup {Text(FALSE, 0, FALSE), Text(TRUE, 0, FALSE)}

WellKnownStatuses == {200, 201, 203, 301, 404, 500}

\* String.prototype.trim
Trim(text) == [text EXCEPT !.padded = FALSE]

\* Variant of AcceptDeclaration: a text of 100 characters is too long
AcceptDeclaration_Below100(text) ==
  IF text.len = 0 \/ text.len >= 100 \/ text.lt THEN Null ELSE Some(text)

\* if (!text || text.length > 100 || text.includes('<')) return null;
\* return text
AcceptDeclaration(text) ==
  IF text.len = 0 \/ text.len > 100 \/ text.lt THEN Null ELSE Some(text)

notWellKnownVars ==
  <<scanVars, bulkVars, fetchVars, proxyVars, diffVars,
    indexVars, sitemapVars, cmsVars, robotsVars, techVars,
    rescanVars>>

InitWellKnown ==
  /\ ScanIdle
  /\ url = BadUrl
  /\ BulkIdle
  /\ domains = <<>>
  /\ FetchIdle
  /\ ProxyIdle
  /\ DiffIdle
  /\ IndexIdle
  /\ SitemapIdle
  /\ CmsIdle
  /\ RobotsIdle
  /\ TechIdle
  /\ RescanIdle
  /\ wpc = "idle"
  /\ wkBaseUrl \in Inputs
  /\ wkStatus = 0
  /\ wkBody = Null
  /\ wkResult = Null

\* checkHostingProvider is called: new URL() throws into the catch block, or
\* the file is requested
CheckHostingProvider ==
  /\ UNCHANGED notWellKnownVars
  /\ wpc = "idle"
  /\ wpc' = (IF Parseable(wkBaseUrl) THEN "fetching" ELSE "returned")
  /\ UNCHANGED <<wkBaseUrl, wkStatus, wkBody, wkResult>>

\* fetchWithTimeout throws: the catch block returns null
WellKnownFetchRejects ==
  /\ UNCHANGED notWellKnownVars
  /\ wpc = "fetching"
  /\ wpc' = "returned"
  /\ UNCHANGED <<wkBaseUrl, wkStatus, wkBody, wkResult>>

\* A response arrives: null when it is not ok, else the body is read
WellKnownResponds ==
  /\ UNCHANGED notWellKnownVars
  /\ wpc = "fetching"
  /\ \E st \in WellKnownStatuses :
       /\ wkStatus' = st
       /\ wpc' = (IF IsOk(st) THEN "reading" ELSE "returned")
  /\ UNCHANGED <<wkBaseUrl, wkBody, wkResult>>

\* res.text() rejects: the catch block returns null
WellKnownTextRejects ==
  /\ UNCHANGED notWellKnownVars
  /\ wpc = "reading"
  /\ wpc' = "returned"
  /\ UNCHANGED <<wkBaseUrl, wkStatus, wkBody, wkResult>>

\* res.text() resolves: the trimmed body is returned or turned down
WellKnownTextResolves ==
  /\ UNCHANGED notWellKnownVars
  /\ wpc = "reading"
  /\ \E body \in WellKnownBodies :
       /\ wkBody' = Some(body)
       /\ wkResult' = AcceptDeclaration(Trim(body))
  /\ wpc' = "returned"
  /\ UNCHANGED <<wkBaseUrl, wkStatus>>

NextWellKnown ==
  \/ CheckHostingProvider
  \/ WellKnownFetchRejects
  \/ WellKnownResponds
  \/ WellKnownTextRejects
  \/ WellKnownTextResolves

SpecWellKnown == InitWellKnown /\ [][NextWellKnown]_vars


\* ------------------------------------------------------------------------
\* detectTech: the CMS, the WordPress REST probe and the WordPress result
\* ------------------------------------------------------------------------

\* What analyzeWpContent resolves with: the REST API answered or it did not
WpContents == {[json_api_active |-> TRUE], [json_api_active |-> FALSE]}

\* detectWordPress: null unless the html has wp-content/ or wp-includes/
detectWordPress(page) ==
  IF "wp-content/" \notin page /\ "wp-includes/" \notin page THEN Null
  ELSE Some([content |-> Null])

\* const wordpress = wpBase ? { ...wpBase, content: wpContent } : null
WordPressResult(cmsName, page, content) ==
  LET wpBase == IF cmsName = Some("WordPress") THEN detectWordPress(page) ELSE Null
  IN IF IsNull(wpBase) THEN Null
     ELSE Some([Val(wpBase) EXCEPT !.content = content])

TechStackResult(cmsName, page, content) ==
  [cms |-> cmsName, wordpress |-> WordPressResult(cmsName, page, content)]

notTechVars ==
  <<scanVars, bulkVars, fetchVars, proxyVars, diffVars,
    indexVars, sitemapVars, cmsVars, robotsVars, wellKnownVars,
    rescanVars>>

InitTech ==
  /\ ScanIdle
  /\ url = BadUrl
  /\ BulkIdle
  /\ domains = <<>>
  /\ FetchIdle
  /\ ProxyIdle
  /\ DiffIdle
  /\ IndexIdle
  /\ SitemapIdle
  /\ CmsIdle
  /\ RobotsIdle
  /\ WellKnownIdle
  /\ RescanIdle
  /\ tpc = "idle"
  /\ techPage \in SignalSets(MaxSignals)
  /\ restCalls = 0
  /\ wpContent = Null
  /\ techResult = Null

\* The page cannot be fetched: the minimal result is returned
TechFetchRejects ==
  /\ tpc = "idle"
  /\ techPage = {}
  /\ tpc' = "returned"
  /\ techResult' = Some([cms |-> Null, wordpress |-> Null])
  /\ UNCHANGED <<techPage, restCalls, wpContent>>
  /\ UNCHANGED notTechVars

\* The page is fetched and read: the CMS is detected, and either the REST
\* probe is started or, without it, the result is built and returned
TechResponds ==
  /\ tpc = "idle"
  /\ LET cmsName == detectCms(techPage)
     IN IF cmsName = Some("WordPress")
          THEN /\ tpc' = "probing"
               /\ restCalls' = restCalls + 1
               /\ UNCHANGED techResult
          ELSE /\ tpc' = "returned"
               /\ techResult' = Some(TechStackResult(cmsName, techPage, Null))
               /\ UNCHANGED restCalls
  /\ UNCHANGED <<techPage, wpContent>>
  /\ UNCHANGED notTechVars

\* analyzeWpContent resolves: the result is built and returned
RestResolves ==
  /\ tpc = "probing"
  /\ \E content \in WpContents :
       /\ wpContent' = Some(content)
       /\ techResult' = Some(TechStackResult(detectCms(techPage), techPage, Some(content)))
  /\ tpc' = "returned"
  /\ UNCHANGED <<techPage, restCalls>>
  /\ UNCHANGED notTechVars

\* analyzeWpContent rejects: Promise.all rejects and detectTech throws
RestRejects ==
  /\ tpc = "probing"
  /\ tpc' = "threw"
  /\ UNCHANGED <<techPage, restCalls, wpContent, techResult>>
  /\ UNCHANGED notTechVars

NextTech ==
  \/ TechFetchRejects
  \/ TechResponds
  \/ RestResolves
  \/ RestRejects

SpecTech == InitTech /\ [][NextTech]_vars


\* ------------------------------------------------------------------------
\* Re-scan: handleRescan diffs the scan fields against the site record, the
\* scans route applies the scan result to the sites row
\* ------------------------------------------------------------------------

\* The values of a scan result and of the columns of the row
NullV == V("null", "", <<>>, 0, 0)
Str(s) == V("string", "none", <<s>>, 0, 0)
Num(n) == V("number", "", <<>>, n, 0)
Bool(b) == V("boolean", "", <<>>, IF b THEN 1 ELSE 0, 0)

\* A value in a condition
Truthy(v) ==
  CASE v.t \in {"undefined", "absent", "null"} -> FALSE
    [] v.t \in {"boolean", "number"} -> v.n # 0
    [] OTHER -> TRUE

\* x ? 1 : 0
BoolInt(v) == Num(IF Truthy(v) THEN 1 ELSE 0)

\* x != null
NotNullish(v) == v.t \notin {"undefined", "absent", "null"}

ScanKeySet == {ScanFieldOrder[k] : k \in 1..Len(ScanFieldOrder)}

\* What detectTech can return, detectWordPress being called for WordPress only
TechStacks ==
  {[cms |-> c, web_server |-> NullV, cdn |-> NullV, hosting_provider |-> h,
    https_enforced |-> Bool(e), hsts |-> Bool(s),
    uswds |-> [count |-> Num(0), usa_classes |-> Num(0), favicon |-> Num(0),
               banner_heres_how |-> Bool(FALSE)],
    dap |-> [detected |-> Bool(FALSE), ga_tag_id |-> NullV],
    wordpress |-> w] :
     c \in {NullV, Str("WordPress")}, h \in {NullV, Str("aws")},
     e \in BOOLEAN, s \in BOOLEAN,
     w \in {Null, Some([version |-> NullV, theme |-> NullV]),
            Some([version |-> Str("6.0"), theme |-> Str("twentytwenty")])}}

SitemapResults ==
  {[detected |-> Bool(TRUE), status_code |-> Num(200), page_count |-> Num(1)],
   [detected |-> Bool(FALSE), status_code |-> Num(404), page_count |-> NullV]}

RobotsResults ==
  {[detected |-> Bool(TRUE), status_code |-> Num(200)],
   [detected |-> Bool(FALSE), status_code |-> Num(404)]}

DnsResults ==
  {[ipv6 |-> Bool(v), hosting_provider |-> h] :
     v \in BOOLEAN, h \in {NullV, Str("aws")}}

Optional(S) == {Null} \cup {Some(x) : x \in S}

\* The results scanSite returns: a WordPress result comes with the WordPress
\* cms only, and the provider DNS infers has been merged into the tech stack
ScanResults ==
  {r \in [tech_stack : Optional(TechStacks), sitemap : Optional(SitemapResults),
          robots : Optional(RobotsResults), dns : Optional(DnsResults)] :
     /\ ~IsNull(r.tech_stack) /\ ~IsNull(Val(r.tech_stack).wordpress)
          => Val(r.tech_stack).cms = Str("WordPress")
     /\ ~IsNull(r.tech_stack) /\ ~IsNull(r.dns) /\ Truthy(Val(r.dns).hosting_provider)
          => Truthy(Val(r.tech_stack).hosting_provider)}

\* The rows a site has before it is scanned: the stub the route inserts, and
\* a row an import has filled
SiteRows ==
  {[key \in ScanKeySet |-> NullV],
   [key \in ScanKeySet |->
      CASE key = "hosting_provider" -> Str("azure")
        [] key = "wp_version" -> Str("5.0")
        [] key \in {"https_enforced", "sitemap_xml_detected"} -> Num(1)
        [] OTHER -> NullV]}

\* One field of a group of the result that may be null
Field(group, f) == IF IsNull(group) THEN Absent ELSE Val(group)[f]

\* scanFields of handleRescan; a key that is not set is Absent
ScanFields(result) ==
  LET ts == result.tech_stack
      uswds == IF IsNull(ts) THEN Null ELSE Some(Val(ts).uswds)
      dap == IF IsNull(ts) THEN Null ELSE Some(Val(ts).dap)
      wordpress == IF IsNull(ts) THEN Null ELSE Val(ts).wordpress
      tsProvider == Field(ts, "hosting_provider")
      dnsProvider == Field(result.dns, "hosting_provider")
  IN [key \in ScanKeySet |->
       CASE key = "cms" -> Field(ts, "cms")
         [] key = "web_server" -> Field(ts, "web_server")
         [] key = "cdn_provider" -> Field(ts, "cdn")
         [] key = "hosting_provider" ->
              IF Truthy(dnsProvider) /\ ~Truthy(tsProvider) THEN dnsProvider ELSE tsProvider
         [] key = "https_enforced" -> Field(ts, "https_enforced")
         [] key = "hsts" -> Field(ts, "hsts")
         [] key = "uswds_count" -> Field(uswds, "count")
         [] key = "uswds_usa_classes" -> Field(uswds, "usa_classes")
         [] key = "uswds_favicon" -> Field(uswds, "favicon")
         [] key = "uswds_banner_heres_how" -> Field(uswds, "banner_heres_how")
         [] key = "dap" -> Field(dap, "detected")
         [] key = "ga_tag_id" -> Field(dap, "ga_tag_id")
         [] key = "wp_version" -> Field(wordpress, "version")
         [] key = "wp_theme" -> Field(wordpress, "theme")
         [] key = "sitemap_xml_detected" -> Field(result.sitemap, "detected")
         [] key = "sitemap_xml_status_code" -> Field(result.sitemap, "status_code")
         [] key = "sitemap_xml_count" -> Field(result.sitemap, "page_count")
         [] key = "robots_txt_detected" -> Field(result.robots, "detected")
         [] key = "robots_txt_status_code" -> Field(result.robots, "status_code")
         [] key = "ipv6" -> Field(result.dns, "ipv6")]

\* relevantSiteFields: site[key] for every key of scanFields
RelevantSiteFields(site, fields) ==
  [key \in ScanKeySet |-> IF fields[key] = Absent THEN Absent ELSE site[key]]

\* A flag of the result as the route stores it
StoredFlag(v) == IF v = Absent THEN Absent ELSE BoolInt(v)

\* A field the route stores only when it is not null
StoredUnlessNull(v) == IF NotNullish(v) THEN v ELSE Absent

\* updates of the scans route, for the columns handleRescan reads; a column
\* that is not updated is Absent
Updates(result) ==
  LET ts == result.tech_stack
      uswds == IF IsNull(ts) THEN Null ELSE Some(Val(ts).uswds)
      dap == IF IsNull(ts) THEN Null ELSE Some(Val(ts).dap)
      wordpress == IF IsNull(ts) THEN Null ELSE Val(ts).wordpress
      tsProvider == StoredUnlessNull(Field(ts, "hosting_provider"))
      dnsProvider == Field(result.dns, "hosting_provider")
  IN [key \in ScanKeySet |->
       CASE key = "cms" -> Field(ts, "cms")
         [] key = "web_server" -> Field(ts, "web_server")
         [] key = "cdn_provider" -> Field(ts, "cdn")
         [] key = "hosting_provider" ->
              IF NotNullish(dnsProvider) /\ ~Truthy(tsProvider) THEN dnsProvider ELSE tsProvider
         [] key = "https_enforced" -> StoredFlag(Field(ts, "https_enforced"))
         [] key = "hsts" -> StoredFlag(Field(ts, "hsts"))
         [] key = "uswds_count" -> Field(uswds, "count")
         [] key = "uswds_usa_classes" -> Field(uswds, "usa_classes")
         [] key = "uswds_favicon" -> Field(uswds, "favicon")
         [] key = "uswds_banner_heres_how" -> StoredFlag(Field(uswds, "banner_heres_how"))
         [] key = "dap" -> StoredFlag(Field(dap, "detected"))
         [] key = "ga_tag_id" -> Field(dap, "ga_tag_id")
         [] key = "wp_version" -> StoredUnlessNull(Field(wordpress, "version"))
         [] key = "wp_theme" -> StoredUnlessNull(Field(wordpress, "theme"))
         [] key = "sitemap_xml_detected" -> StoredFlag(Field(result.sitemap, "detected"))
         [] key = "sitemap_xml_status_code" -> Field(result.sitemap, "status_code")
         [] key = "sitemap_xml_count" -> Field(result.sitemap, "page_count")
         [] key = "robots_txt_detected" -> StoredFlag(Field(result.robots, "detected"))
         [] key = "robots_txt_status_code" -> Field(result.robots, "status_code")
         [] key = "ipv6" -> StoredFlag(Field(result.dns, "ipv6"))]

\* UPDATE sites SET ... : the columns of updates are written, the others kept
UpdateSites(row, updates) ==
  [key \in ScanKeySet |-> IF updates[key] = Absent THEN row[key] ELSE updates[key]]

notRescanVars ==
  <<scanVars, bulkVars, fetchVars, proxyVars, diffVars, indexVars,
    sitemapVars, cmsVars, robotsVars, wellKnownVars,
    techVars>>

InitRescan ==
  /\ ScanIdle
  /\ url = BadUrl
  /\ BulkIdle
  /\ domains = <<>>
  /\ FetchIdle
  /\ ProxyIdle
  /\ DiffIdle
  /\ IndexIdle
  /\ SitemapIdle
  /\ CmsIdle
  /\ RobotsIdle
  /\ WellKnownIdle
  /\ TechIdle
  /\ rpc = "ready"
  /\ siteRow \in SiteRows
  /\ scanResult \in ScanResults
  /\ rescanDiff = Null
  /\ persisted = FALSE

\* Re-scan is clicked: scanSite returns, the diff against the site prop is
\* computed and the result is posted
HandleRescan ==
  /\ rpc = "ready"
  /\ LET scanFields == ScanFields(scanResult)
     IN rescanDiff' = Some(computeDiff(RelevantSiteFields(siteRow, scanFields), scanFields))
  /\ rpc' = "posting"
  /\ UNCHANGED <<siteRow, scanResult, persisted>>
  /\ UNCHANGED notRescanVars

\* The scans route applies the result to the row and answers; the site query
\* is invalidated, so the panel gets the new row
PostScan ==
  /\ rpc = "posting"
  /\ siteRow' = UpdateSites(siteRow, Updates(scanResult))
  /\ persisted' = TRUE
  /\ rpc' = "ready"
  /\ UNCHANGED <<scanResult, rescanDiff>>
  /\ UNCHANGED notRescanVars

\* The request fails: the panel shows the error, the row is as it was
PostScanRejects ==
  /\ rpc = "posting"
  /\ rpc' = "ready"
  /\ UNCHANGED <<siteRow, scanResult, rescanDiff, persisted>>
  /\ UNCHANGED notRescanVars

NextRescan ==
  \/ HandleRescan
  \/ PostScan
  \/ PostScanRejects

SpecRescan == InitRescan /\ [][NextRescan]_vars

\* ------------------------------------------------------------------------
\* Properties
\* ------------------------------------------------------------------------
Has(errs, label) == \E k \in 1..Len(errs) : errs[k] = label

LastHop == Val(redirect_chain).hops[Len(Val(redirect_chain).hops)]

\* C1: the five probes are all started together, a settling (or failing)
\* probe leaves every other running probe running, and scanSite is done only
\* when all five have settled.
C1_AllProbesSettle ==
  /\ [](/\ pc \in {"idle", "redirect"} => \A p \in Probes : probe[p] = "idle"
        /\ pc = "probes" => \A p \in Probes : probe[p] \in {"running", "settled"}
        /\ pc = "done" => \A p \in Probes : probe[p] = "settled")
  /\ [][\A p \in Probes :
          probe[p] = "running" =>
            /\ probe'[p] \in {"running", "settled"}
            /\ \A q \in Probes \ {p} :
                 (probe'[p] = "settled" /\ probe[q] = "running") => probe'[q] = "running"]_vars

\* C1 witness: the scan is done, the sitemap probe threw and the robots and
\* DNS probes still delivered their results
C1_Witness ==
  /\ pc = "done"
  /\ Has(errors, "sitemap")
  /\ ~IsNull(robots)
  /\ ~IsNull(dns)

\* C2: no probe is started while the redirect step is under way, and every
\* probe is called with the last hop's URL of the resolved chain, or with the
\* original URL when the resolver failed.
C2_ProbesAfterRedirectOnFinalUrl ==
  \A p \in Probes :
    probe[p] # "idle" =>
      /\ pc \in {"probes", "done"}
      /\ method = "none"
      /\ probeTarget[p] = Some(IF IsNull(redirect_chain) THEN url ELSE LastHop.url)

\* C2 witness: a scan whose chain ended on another URL than the one given
C2_Witness ==
  /\ pc = "done"
  /\ ~IsNull(redirect_chain)
  /\ LastHop.url # url
  /\ probeTarget["sitemap"] = Some(LastHop.url)

\* C3: scanSite never rejects and, every request settling, it returns.
C3_ScanAlwaysResolves == [](pc # "rejected") /\ <>(pc = "done")

\* C3 witness: the scan returned although the resolver and four probes threw
C3_Witness == pc = "done" /\ Len(errors) = 5

\* C4: when the resolver fails on the first request (no hop is recorded), the
\* result has no chain, live = null, a non-empty errors list and a status
\* that is not completed.
C4_UnreachableHost ==
  (pc = "done" /\ hops = <<>>) =>
    /\ redirect_chain = Null
    /\ live = Null
    /\ Len(errors) > 0
    /\ status \in {"partial", "failed"}

\* C4 witness: a scan of a well-formed URL whose first request failed twice
C4_Witness == pc = "done" /\ hops = <<>> /\ Parseable(url) /\ status = "partial"

\* C5: the status of a returned result is completed exactly for no error,
\* partial exactly for 1 or 2 errors, failed exactly for 3 or more.
C5_StatusByErrorCount ==
  pc = "done" =>
    /\ status = "completed" <=> Len(errors) = 0
    /\ status = "partial" <=> Len(errors) \in {1, 2}
    /\ status = "failed" <=> Len(errors) >= 3

\* C5 witness: a result with exactly three errors
C5_Witness == pc = "done" /\ Len(errors) = 3 /\ status = "failed"

\* A probe failed: it threw, or it reported the failure in its own result
SitemapFailed == IsNull(sitemap) \/ ~IsNull(Val(sitemap).error)
RobotsFailed == IsNull(robots) \/ ~IsNull(Val(robots).error)

\* C6 as stated: whenever a probe failed, also with a failure it caught and
\* reported in its own result, errors is non-empty and status is not
\* completed.
C6_Original ==
  (pc = "done" /\ (SitemapFailed \/ RobotsFailed \/ IsNull(tech_stack) \/ IsNull(dns))) =>
    /\ Len(errors) > 0
    /\ status # "completed"

\* C6 amended: errors has one entry for each of the resolver and the four
\* probes that threw, and none for a failure a probe caught and reported in
\* its own result; the status is not completed when one of them threw.
C6_ThrownFailuresAggregated ==
  pc = "done" =>
    /\ Has(errors, "redirect") <=> IsNull(redirect_chain)
    /\ Has(errors, "sitemap") <=> IsNull(sitemap)
    /\ Has(errors, "robots") <=> IsNull(robots)
    /\ Has(errors, "tech") <=> IsNull(tech_stack)
    /\ Has(errors, "dns") <=> IsNull(dns)
    /\ Len(errors) = Cardinality({x \in {"redirect", "sitemap", "robots", "tech", "dns"} :
                                    Has(errors, x)})
    /\ (IsNull(sitemap) \/ IsNull(robots) \/ IsNull(tech_stack) \/ IsNull(dns))
         => status # "completed"

\* C6 witness: the sitemap probe threw, the robots probe caught its own
\* failure: one entry
C6_Witness ==
  /\ pc = "done"
  /\ IsNull(sitemap)
  /\ ~IsNull(robots) /\ ~IsNull(Val(robots).error)
  /\ errors = <<"sitemap">>

\* C7 as stated: the hosting provider of a returned result is the well-known
\* declaration when there is one, else the DNS inference when there is one,
\* else null, whatever the other probes did.
C7_Original ==
  pc = "done" =>
    ReportedHostingProvider(tech_stack, dns) =
      (IF ~IsNull(wellKnownProvider) THEN wellKnownProvider
       ELSE IF ~IsNull(dns) THEN Val(dns).hosting_provider
       ELSE Null)

\* C8: live is null until the scan is done; then, with at least one hop, it
\* is (last hop's status in 200..299) and not login_gate, and with no hop it
\* is null.
C8_Liveness ==
  /\ pc # "done" => live = Null
  /\ pc = "done" =>
       IF ~IsNull(redirect_chain) /\ Len(Val(redirect_chain).hops) > 0
         THEN /\ live = Some(/\ LastHop.status_code \in 200..299
                             /\ ~(~IsNull(tech_stack) /\ Val(tech_stack).login_gate))
              /\ (LastHop.status_code = 200
                    /\ ~(~IsNull(tech_stack) /\ Val(tech_stack).login_gate))
                   => live = Some(TRUE)
              /\ LastHop.status_code = 401 => live = Some(FALSE)
         ELSE live = Null

\* C8 witness: the last hop answered 200 and the page is a login gate
C8_Witness ==
  /\ pc = "done"
  /\ ~IsNull(redirect_chain)
  /\ LastHop.status_code = 200
  /\ ~IsNull(tech_stack) /\ Val(tech_stack).login_gate
  /\ live = Some(FALSE)

\* C9: pLimit creates min(N, number of domains) workers, and the number of
\* tasks in flight never exceeds N.
C9_BoundedConcurrency ==
  /\ bpc \in {"running", "returned"} =>
       Len(workers) = (IF Len(domains) < BULK_CONCURRENCY THEN Len(domains)
                       ELSE BULK_CONCURRENCY)
  /\ Cardinality(InFlight(workers)) <= BULK_CONCURRENCY

\* C9 witness: N tasks in flight while domains are waiting in the queue
C9_Witness ==
  /\ Cardinality(InFlight(workers)) = BULK_CONCURRENCY
  /\ Len(queue) > 0

\* C10: once the abort flag is set no further domain is dequeued or
\* dispatched, a task in flight goes on to its own end (a posted result is
\* counted as done or failed), and the run has returned only when every
\* worker has left its loop, the rest of the domains still in the queue.
C10_CooperativeAbort ==
  /\ [][bulkAborted =>
          /\ bulkAborted'
          /\ dispatched' = dispatched
          /\ bpc = "running" => queue' = queue
          /\ \A w \in 1..Len(workers) :
               workers[w].state = "posting" =>
                 \/ workers'[w] = workers[w]
                 \/ /\ workers'[w] = Exited
                    /\ bulkScan'.done + bulkScan'.failed
                         = bulkScan.done + bulkScan.failed + 1]_vars
  /\ [](bpc = "returned" =>
          /\ AllExited(workers)
          /\ dispatched \o queue = domains
          /\ bulkScan.done + bulkScan.failed = Cardinality(posted))

\* C10 witness: a stopped run that returned with results posted and domains
\* left in the queue
C10_Witness ==
  /\ bpc = "returned"
  /\ bulkAborted
  /\ Len(queue) > 0
  /\ posted # {}

\* C11: a failure of one domain's task is counted by the task itself; the
\* other workers are left as they are, the worker whose task failed takes
\* the next domain when one is waiting and the run was not stopped, and a
\* run that was not stopped returns only with the queue empty and every
\* dispatched domain counted as done or failed.
C11_TaskFailureIsolated ==
  /\ [][bulkScan'.failed = bulkScan.failed + 1 =>
          \E w \in 1..Len(workers) :
            /\ workers[w].state = "posting"
            /\ \A v \in 1..Len(workers) \ {w} : workers'[v] = workers[v]
            /\ IF LoopGuard(queue, bulkAborted)
                 THEN /\ workers'[w] = [state |-> "scanning", item |-> Head(queue)]
                      /\ queue' = Tail(queue)
                 ELSE workers'[w] = Exited /\ queue' = queue]_vars
  /\ []((bpc = "returned" /\ ~bulkAborted) =>
          /\ queue = <<>>
          /\ bulkScan.done + bulkScan.failed = Len(domains))

\* C11 witness: a run that was not stopped returned with a failed domain
\* and with domains that were dequeued and done after the failure
C11_Witness ==
  /\ bpc = "returned"
  /\ ~bulkAborted
  /\ bulkScan.failed = 1
  /\ bulkScan.done >= 3

\* C12: the domains dispatched so far are pairwise different and none is
\* the undefined of an empty queue, no two workers hold the same domain,
\* and the dispatched domains followed by the queue are the domains given.
C12_QueueShiftAtomic ==
  /\ \A i, j \in 1..Len(dispatched) : i # j => dispatched[i] # dispatched[j]
  /\ \A i \in 1..Len(dispatched) : dispatched[i] # Undefined
  /\ \A w \in InFlight(workers) :
       /\ workers[w].item # Undefined
       /\ \A v \in InFlight(workers) \ {w} : workers[v].item # workers[w].item
  /\ bpc \in {"running", "returned"} => dispatched \o queue = domains

\* C12 witness: three tasks in flight, one of them on a domain its worker
\* took from the queue after its first task, the queue now empty
C12_Witness ==
  /\ Cardinality(InFlight(workers)) = BULK_CONCURRENCY
  /\ Len(dispatched) > BULK_CONCURRENCY
  /\ queue = <<>>

\* C13: the hops of checkRedirectChain are never more than 10 and no URL
\* is in them twice, and the chain it returns has exactly these hops.
C13_ChainBoundedNoRepeat ==
  /\ Len(hops) <= 10
  /\ \A i, j \in 1..Len(hops) : i # j => hops[i].url # hops[j].url
  /\ pc = "returned" =>
       /\ ~IsNull(redirect_chain)
       /\ Val(redirect_chain).hops = hops
       /\ Val(redirect_chain).total_hops = Len(hops)

\* C13 witness: a chain of 10 hops returned from a server whose tenth
\* answer was one more redirect to a new URL
C13_Witness ==
  /\ pc = "returned"
  /\ Len(hops) = 10
  /\ IsRedirect(hops[10].status_code)
  /\ currentUrl \notin visited

\* C14: a request is posted to the proxy at most once per call, only after
\* the direct fetch rejected with an error that is not the abort and whose
\* message has one of the network keywords, and for the URL and method of
\* the direct request; when the timer fired, no request was posted to the
\* proxy and the call threw 'Request timeout'.
C14_ProxyFallback ==
  /\ Len(proxyRequests) <= 1
  /\ proxyRequests # <<>> =>
       /\ ~IsNull(fetchErr)
       /\ Val(fetchErr).name # "AbortError"
       /\ Val(fetchErr).includes \cap NetworkKeywords # {}
       /\ timer = "cleared"
       /\ proxyRequests = directRequests
  /\ timer = "fired" =>
       /\ proxyRequests = <<>>
       /\ fpc = "threw"
       /\ fetchResult = Some(FetchThrew("direct", "Request timeout"))

\* C14 witness: a HEAD request that failed with a network error and was
\* answered through the proxy
C14_Witness ==
  /\ fpc = "returned"
  /\ fetchMethod = Some("HEAD")
  /\ proxyRequests = <<[url |-> fetchUrl, method |-> "HEAD"]>>
  /\ Val(fetchResult).via = "proxy"

\* An IPv4 address in a private (10/8, 172.16/12, 192.168/16), loopback
\* (127/8), link-local (169.254/16) or CGNAT (100.64/10) range
InPrivateRange(a) ==
  /\ a.kind = "ipv4"
  /\ \/ a.parts[1] = 10
     \/ a.parts[1] = 172 /\ a.parts[2] \in 16..31
     \/ a.parts[1] = 192 /\ a.parts[2] = 168
     \/ a.parts[1] = 127
     \/ a.parts[1] = 169 /\ a.parts[2] = 254
     \/ a.parts[1] = 100 /\ a.parts[2] \in 64..127

ProxyMayFetch ==
  /\ toUpperCase(BodyMethod(Val(reqBody))) \in {"GET", "HEAD"}
  /\ addresses # {}
  /\ \A a \in addresses : ~InPrivateRange(a)

ChangedFields == {Val(diff).changed[i].field : i \in 1..Len(Val(diff).changed)}

\* Two JSON texts of an array or an object
BothJsonTexts(x, y) ==
  /\ x.t = "string" /\ y.t = "string"
  /\ x.of \in {"array", "object"} /\ y.of = x.of

\* The texts differ in nothing but the spaces
SameButSpaces(x, y) == BothJsonTexts(x, y) /\ x.doc = y.doc

\* The texts differ in nothing but the spaces and the order of the keys
SameButSpacesAndKeyOrder(x, y) ==
  /\ BothJsonTexts(x, y)
  /\ IF x.of = "array" THEN x.doc = y.doc
     ELSE {x.doc[i] : i \in 1..Len(x.doc)} = {y.doc[i] : i \in 1..Len(y.doc)}

ConsideredKeys == {key \in DiffKeySet : before[key] # Absent \/ after[key] # Absent} \ SKIP_FIELDS
OneSided(key) == (before[key] = Absent) # (after[key] = Absent)
OneSidedValue(key) == IF before[key] = Absent THEN after[key] ELSE before[key]

\* Every considered key is in changed once or counted once, and no other
\* key is
DiffCoversKeys ==
  /\ ChangedFields \subseteq ConsideredKeys
  /\ \A i, j \in 1..Len(Val(diff).changed) :
       i # j => Val(diff).changed[i].field # Val(diff).changed[j].field
  /\ Len(Val(diff).changed) + Val(diff).unchanged_count = Cardinality(ConsideredKeys)

\* C17 as stated: computeDiff considers the keys of both maps but the
\* volatile ones, each once, and every key that only one map has is in
\* changed.
C17_Original ==
  ~IsNull(diff) =>
    /\ DiffCoversKeys
    /\ \A key \in ConsideredKeys : OneSided(key) => key \in ChangedFields

\* C17 amended: computeDiff considers the keys of both maps but the
\* volatile ones, each once, and a key that only one map has is in changed
\* exactly when the value it has there is not undefined.
C17_UnionOfKeys ==
  ~IsNull(diff) =>
    /\ DiffCoversKeys
    /\ \A key \in ConsideredKeys :
         OneSided(key) => (key \in ChangedFields <=> OneSidedValue(key) # Undef)

\* C17 witness: tags is in after only, dap_parameters in both maps with
\* one value, scan_date in both with two values: one field changed, one
\* counted
C17_Witness ==
  /\ ~IsNull(diff)
  /\ before["tags"] = Absent /\ after["tags"] = V("null", "", <<>>, 0, 0)
  /\ before["dap_parameters"] = after["dap_parameters"]
  /\ before["dap_parameters"] # Absent
  /\ before["scan_date"] # Absent /\ after["scan_date"] # Absent
  /\ before["scan_date"] # after["scan_date"]
  /\ ChangedFields = {"tags"}
  /\ Val(diff).unchanged_count = 1

\* Number of <url> elements, and of those whose loc ends in .pdf in any
\* case, in the documents docs
RECURSIVE UrlEntriesIn(_)
UrlEntriesIn(docs) ==
  IF docs = <<>> THEN 0 ELSE Len(UrlsOf(Head(docs))) + UrlEntriesIn(Tail(docs))

RECURSIVE LocEntriesIn(_)
LocEntriesIn(docs) ==
  IF docs = <<>> THEN 0
  ELSE Cardinality({k \in 1..Len(UrlsOf(Head(docs))) : UrlsOf(Head(docs))[k].hasLoc})
         + LocEntriesIn(Tail(docs))

RECURSIVE PdfEntriesIn(_)
PdfEntriesIn(docs) ==
  IF docs = <<>> THEN 0
  ELSE Cardinality({k \in 1..Len(UrlsOf(Head(docs))) :
                      UrlsOf(Head(docs))[k].hasLoc
                        /\ UrlsOf(Head(docs))[k].ext \in {"pdf", "PDF"}})
         + PdfEntriesIn(Tail(docs))

\* C18 as stated: at most 20 children are fetched, page_count is the number
\* of <url> entries and pdf_count the number of .pdf entries of the
\* children fetched successfully, and sitemaps_found is the number of
\* child sitemaps of the index.
C18_Original ==
  /\ childRequests <= 20
  /\ ipc = "returned" =>
       /\ Val(indexResult).page_count = UrlEntriesIn(fetchedOk)
       /\ Val(indexResult).pdf_count = Some(PdfEntriesIn(fetchedOk))
       /\ Val(indexResult).sitemaps_found = Len(indexDoc)

\* C18 amended: at most 20 children are fetched; page_count is the number
\* of <url> entries with a <loc> of the children fetched successfully,
\* whatever the order they settled in; pdf_count is the number of those
\* ending in .pdf, and null when there is none; sitemaps_found is the
\* number of <sitemap> elements of the index, 20 at most, the failing ones
\* included; the analysis returns when every child has settled.
C18_IndexTotals ==
  /\ childRequests <= 20
  /\ ipc = "returned" =>
       /\ NonePending(pending)
       /\ Val(indexResult).detected
       /\ Val(indexResult).page_count = LocEntriesIn(fetchedOk)
       /\ Val(indexResult).pdf_count
            = (IF PdfEntriesIn(fetchedOk) = 0 THEN Null ELSE Some(PdfEntriesIn(fetchedOk)))
       /\ Val(indexResult).sitemaps_found
            = (IF Len(indexDoc) < 20 THEN Len(indexDoc) ELSE 20)
       /\ (Len(indexDoc) = 2 /\ {fetchedOk[k] : k \in 1..Len(fetchedOk)} = {"A", "B"}) =>
            /\ Val(indexResult).page_count = 150
            /\ Val(indexResult).pdf_count = Some(3)
            /\ Val(indexResult).sitemaps_found = 2

\* C18 witness: the index of A (100 URLs, 3 PDFs) and B (50 URLs), B
\* answered first, and a third child that failed: 150, 3 and 3
C18_Witness ==
  /\ ipc = "returned"
  /\ Len(indexDoc) = 3
  /\ fetchedOk = <<"B", "A">>
  /\ childRequests = 3
  /\ Val(indexResult).page_count = 150
  /\ Val(indexResult).pdf_count = Some(3)

\* The failures C19 names, told from what analyzeSitemap met
SitemapNetworkFailure == spc \in {"returned", "threw"} /\ smStatus = 0
SitemapNon2xx == spc \in {"returned", "threw"} /\ smStatus # 0 /\ ~IsOk(smStatus)
SitemapMalformed ==
  /\ spc \in {"returned", "threw"}
  /\ ~IsNull(smDoc)
  /\ Val(smDoc).kind \in {"parsererror", "throws"}

Candidates == {CmsOrder[k] : k \in 1..Len(CmsOrder)}
TopScore ==
  CHOOSE sc \in {CmsScore(c, cmsSignals) : c \in Candidates} :
    \A c \in Candidates : CmsScore(c, cmsSignals) <= sc

\* C20: detectCms returns a candidate exactly when the highest score is at
\* least 40, and the candidate it returns has the highest score; with a
\* highest score of 39 or less it returns null.
C20_CmsThreshold ==
  cmsCalled =>
    /\ ~IsNull(cmsResult) <=> TopScore >= 40
    /\ TopScore <= 39 => cmsResult = Null
    /\ ~IsNull(cmsResult) =>
         /\ Val(cmsResult) \in Candidates
         /\ CmsScore(Val(cmsResult), cmsSignals) = TopScore

\* C20 witness: a page whose highest score is exactly 40 (Sitecore, from
\* data-sc- and the word sitecore) while another candidate has 30
C20_Witness ==
  /\ cmsCalled
  /\ TopScore = 40
  /\ cmsResult = Some("Sitecore")
  /\ CmsScore("WordPress", cmsSignals) = 30

\* The phases scanSite reports and the calls the callback got
Phases == {"redirect", "sitemap", "robots", "tech", "dns"}
ProgressCalls == Val(onProgress)
CalledBefore(j, step, done) ==
  \E i \in 1..(j - 1) : ProgressCalls[i] = [step |-> step, done |-> done]

\* C21: with a callback, no phase is reported more than once as started or as
\* done, a phase reported done was reported started before, a phase other than
\* redirect is reported started only after redirect was reported done, and when
\* scanSite has returned every phase was reported started once and done once,
\* whether the phase failed or not.
C21_ProgressCalls ==
  ~IsNull(onProgress) =>
    /\ \A j \in 1..Len(ProgressCalls) :
         LET c == ProgressCalls[j]
         IN /\ c.step \in Phases
            /\ ~CalledBefore(j, c.step, c.done)
            /\ c.done => CalledBefore(j, c.step, FALSE)
            /\ (~c.done /\ c.step # "redirect") => CalledBefore(j, "redirect", TRUE)
    /\ pc = "done" =>
         \A p \in Phases :
           /\ CalledBefore(Len(ProgressCalls) + 1, p, FALSE)
           /\ CalledBefore(Len(ProgressCalls) + 1, p, TRUE)

\* C21 witness: a scan with a callback has returned after its redirect and
\* tech phases failed, and the callback got its ten calls
C21_Witness ==
  /\ ~IsNull(onProgress)
  /\ pc = "done"
  /\ Has(errors, "redirect")
  /\ Has(errors, "tech")
  /\ Len(ProgressCalls) = 10

\* The URLs of the first n hops
HopUrls(hs, n) == {hs[j].url : j \in 1..n}

\* The response ends the chain whose hops are hs: it is no redirect, or has
\* no Location, or one that cannot be parsed, or one that leads to the URL of
\* a hop, or it is the response of hop MAX_REDIRECTS
EndsChain(resp, hs) ==
  LET n == Len(hs)
      target == ResolveLocation(resp.location, hs[n].url)
  IN \/ ~IsRedirect(resp.status)
     \/ resp.location = NoLocation
     \/ IsNull(target)
     \/ Val(target) \in HopUrls(hs, n)
     \/ n = MAX_REDIRECTS

\* C22: in a chain checkRedirectChain returned there is one hop per response,
\* with the URL requested and the status received; every hop but the last is
\* a 3xx whose Location, resolved against the hop's URL, is the URL of the
\* next hop; the response of the last hop ends the chain; final_url is the
\* URL of the last hop.
C22_ChainShape ==
  (pc = "returned" /\ ~IsNull(wire)) =>
    LET chain == Val(redirect_chain)
        hs == chain.hops
        resp == Val(wire)
    IN /\ Len(hs) >= 1
       /\ Len(resp) = Len(hs)
       /\ hs[1].url = url
       /\ \A k \in 1..Len(hs) : hs[k].status_code = resp[k].status
       /\ \A k \in 1..(Len(hs) - 1) :
            /\ IsRedirect(hs[k].status_code)
            /\ ResolveLocation(resp[k].location, hs[k].url) = Some(hs[k + 1].url)
       /\ EndsChain(resp[Len(hs)], hs)
       /\ chain.final_url = hs[Len(hs)].url

\* C22 witness: a returned chain of three hops whose last response is a 3xx
\* with a Location that leads back to the URL of an earlier hop
C22_Witness ==
  /\ pc = "returned"
  /\ ~IsNull(wire)
  /\ Len(hops) = 3
  /\ IsRedirect(hops[3].status_code)
  /\ ~IsNull(ResolveLocation(Val(wire)[3].location, hops[3].url))
  /\ Val(ResolveLocation(Val(wire)[3].location, hops[3].url)) = hops[1].url
  /\ Val(redirect_chain).final_url = hops[3].url

\* C23 as stated: a hop never carries the answer to a HEAD request the server
\* rejected or does not support; such a hop carries the answer to the GET
\* request that followed for the same URL.
C23_Original ==
  ~IsNull(wire) =>
    \A k \in 1..Len(hops) :
      Val(wire)[k].method = "HEAD" => hops[k].status_code \notin HeadUnsupported

\* The lines of the body with a numeric crawl-delay, in file order
NumericDelayLines ==
  {k \in 1..Len(robotsLines) :
     /\ LowerField(robotsLines[k].field) = "crawl-delay"
     /\ ~IsNull(LeadingDigits(robotsLines[k].text))}

\* C24 as stated: with several numeric crawl-delay lines, crawl_delay is the
\* value of the first of them in file order.
C24_Original ==
  (robotsReturned /\ Cardinality(NumericDelayLines) >= 2) =>
    LET first == CHOOSE k \in NumericDelayLines : \A j \in NumericDelayLines : k <= j
    IN Val(robotsResult).crawl_delay = LeadingDigits(robotsLines[first].text)

\* C25 as stated: a provider is returned only when the response was ok and
\* the trimmed body is not empty, shorter than 100 characters and without '<'.
C25_Original ==
  (wpc = "returned" /\ ~IsNull(wkResult)) =>
    /\ IsOk(wkStatus)
    /\ ~IsNull(wkBody)
    /\ Val(wkBody).len > 0
    /\ Val(wkBody).len < 100
    /\ ~Val(wkBody).lt

\* C25: checkHostingProvider always returns and never throws; it returns the
\* trimmed body exactly when the response was ok and the trimmed body has
\* between 1 and 100 characters and no '<', and null in every other case
\* (baseUrl no URL, the fetch failed, the response not ok, the body not
\* readable).
C25_Declaration ==
  /\ wpc \in {"idle", "fetching", "reading", "returned"}
  /\ wpc # "returned" => IsNull(wkResult)
  /\ wpc = "returned" =>
       LET accepted ==
             /\ Parseable(wkBaseUrl)
             /\ IsOk(wkStatus)
             /\ ~IsNull(wkBody)
             /\ Val(wkBody).len >= 1
             /\ Val(wkBody).len <= 100
             /\ ~Val(wkBody).lt
       IN /\ accepted => wkResult = Some(Trim(Val(wkBody)))
          /\ ~accepted => wkResult = Null

\* C25 witness: a body of exactly 100 characters with white space around it
\* was returned without the white space
C25_Witness ==
  /\ wpc = "returned"
  /\ ~IsNull(wkBody)
  /\ Val(wkBody) = Text(TRUE, 100, FALSE)
  /\ wkResult = Some(Text(FALSE, 100, FALSE))

\* C26: a run that was never stopped has returned only with the task of every
\* domain of the list started exactly once, in the order of the list, however
\* many of the tasks failed; and every run that was started returns.
C26_AllDomainsOnceAndReturns ==
  /\ []((bpc = "returned" /\ ~bulkAborted) => dispatched = domains)
  /\ (bpc = "importing" ~> bpc = "returned")

\* C26 witness: a run that was not stopped returned after more domains than
\* there are workers, every one of its tasks having failed
C26_Witness ==
  /\ bpc = "returned"
  /\ ~bulkAborted
  /\ Len(domains) > BULK_CONCURRENCY
  /\ dispatched = domains
  /\ bulkScan.failed = Len(domains)

\* C27: once the stop flag is set, a task whose scanSite call completes goes
\* on without a postScan call and without a change to the done and failed
\* counts: its worker leaves the scanning state for anything but posting, and
\* the set of posted domains never grows while the flag is set.
C27_NoSaveAfterStop ==
  [][bulkAborted =>
       /\ posted' = posted
       /\ \A w \in 1..Len(workers) :
            (workers[w].state = "scanning" /\ workers'[w] # workers[w]) =>
              /\ workers'[w].state # "posting"
              /\ bulkScan'.done = bulkScan.done
              /\ bulkScan'.failed = bulkScan.failed]_vars

\* C27 witness: a stopped run has returned with a dispatched domain whose
\* scan completed after the stop and was never posted, the counts covering
\* the posted domains only
C27_Witness ==
  /\ bpc = "returned"
  /\ bulkAborted
  /\ posted # {}
  /\ Len(dispatched) > Cardinality(posted)
  /\ bulkScan.done + bulkScan.failed = Cardinality(posted)

\* C28: when checkRedirectChain threw after it had recorded hops, the scan
\* goes on without a chain: redirect_chain is null, errors has 'redirect'
\* exactly once, every probe was called with the URL scanSite was given, and
\* live is null, also in the result returned.
C28_LateRedirectFailure ==
  (pc \in {"probes", "done"} /\ IsNull(redirect_chain) /\ Len(hops) >= 1) =>
    /\ Cardinality({k \in 1..Len(errors) : errors[k] = "redirect"}) = 1
    /\ errors[1] = "redirect"
    /\ \A p \in Probes : probeTarget[p] = Some(url)
    /\ live = Null

\* C28 witness: the first hop was a redirect to another URL, both requests of
\* the second hop failed, and the scan returned
C28_Witness ==
  /\ pc = "done"
  /\ IsNull(redirect_chain)
  /\ Len(hops) = 1
  /\ IsRedirect(hops[1].status_code)
  /\ currentUrl # url
  /\ probeTarget["tech"] = Some(url)
  /\ live = Null

\* C29 as stated: a result with cms = 'WordPress' has a wordpress object whose
\* content is what the REST probe of that page resolved with.
C29_Original ==
  (tpc = "returned" /\ Val(techResult).cms = Some("WordPress")) =>
    /\ ~IsNull(Val(techResult).wordpress)
    /\ Val(Val(techResult).wordpress).content = wpContent

\* C30 as stated: once a scan result has been applied to the row, a re-scan
\* with the same observations computes a diff whose changed list is empty.
C30_Original ==
  (persisted /\ rpc = "posting") => Val(rescanDiff).changed = <<>>

====
